---- MODULE Spec2Model ----
(***************************************************************************)
(* Model of the OpenGraph acquisition-and-caching engine of red-rss:       *)
(* the cache store (database.go), the fetcher and the coordinator          *)
(* (opengraph.go).                                                         *)
(*                                                                         *)
(* Time is counted in hours.  A Go time.Time is [t, loc]: the instant and  *)
(* the zone offset of its Location.  The store keeps a time as the TEXT    *)
(* the SQLite driver binds for it (time.Time.String(): the wall clock in   *)
(* the value's own Location, then the zone), and the SQL of database.go    *)
(* compares that TEXT with datetime('now'), the 19 characters of the UTC   *)
(* wall clock.  Strings are sequences of one-character strings.            *)
(***************************************************************************)
EXTENDS Integers, Sequences, FiniteSets, TLC

VARIABLES
    now,        \* the current instant (time.Now / datetime('now'))
    tz,         \* zone offset of time.Local in the running process
    env,        \* "any": servers and storage may fail; "steady": they do not
    rows,       \* the rows of table opengraph_cache
    urls,       \* FetchConcurrentOpenGraph: the argument
    task,       \* one goroutine per element of urls (see NewTask)
    semaphore,  \* number of tokens in the semaphore channel
    results,    \* the results channel (a FIFO of <<url, og>>)
    closed,     \* whether close(results) has happened
    wg,         \* the WaitGroup counter
    data,       \* the map being assembled / returned
    phase,      \* "idle" | "collect" | "returned"
    batches,    \* number of calls of FetchConcurrentOpenGraph so far
    saved,      \* history, per URL: <<og>> of the last put that succeeded
    lastFail,   \* history, per URL: "none", or the cache lookup ("miss",
                \* "error") of the last resolve that failed since that put
    ret,        \* the last call of the store's API and what it returned
    mu,         \* OpenGraphDB.mu: where each caller of the store stands
    schema,     \* the columns of table opengraph_cache (<<>>: no table yet)
    db,         \* InitOpenGraphDB: "closed", its steps, "ready" or "failed"
    fn          \* a function called on its own: its argument and its result

vars == <<now, tz, env, rows, urls, task, semaphore, results, closed, wg,
          data, phase, batches, saved,
                   lastFail, ret, mu, schema, db, fn>>

coordVars == <<urls, task, semaphore, results, closed, wg, data, phase,
               batches, saved, lastFail>>

-----------------------------------------------------------------------------
(* Program constants *)

maxConcurrent == 5

OpenGraphCacheHours == 24

(* Bounds of the model *)

TickHours == 4

MaxNow == 28

MaxBatches == 2

PoolSize == 6

MaxNodes == 3

MaxPosts == 3

MaxCallbacks == 2

-----------------------------------------------------------------------------
(* Strings *)

Contains(s, sub) ==
    \E i \in 1..(Len(s) - Len(sub) + 1) : SubSeq(s, i, i + Len(sub) - 1) = sub

IndexOf(s, c) ==
    IF \E i \in 1..Len(s) : s[i] = c
    THEN CHOOSE i \in 1..Len(s) : s[i] = c /\ \A j \in 1..(i - 1) : s[j] # c
    ELSE 0

Letters == {"a", "b", "c", "d", "e", "h", "i", "m", "o", "r", "t", "x"}

\* url.Parse as far as isValidURL reads it: the scheme is the run of letters
\* before the first ":", the host is what follows "//" up to the next "/".
urlScheme(s) ==
    LET i == IndexOf(s, ":")
    IN  IF i > 1 /\ \A j \in 1..(i - 1) : s[j] \in Letters
        THEN SubSeq(s, 1, i - 1)
        ELSE <<>>

urlHost(s) ==
    LET i == IndexOf(s, ":")
        rest == IF urlScheme(s) = <<>> THEN <<>> ELSE SubSeq(s, i + 1, Len(s))
    IN  IF Len(rest) >= 2 /\ rest[1] = "/" /\ rest[2] = "/"
        THEN LET auth == SubSeq(rest, 3, Len(rest))
                 e == IndexOf(auth, "/")
             IN  IF e = 0 THEN auth ELSE SubSeq(auth, 1, e - 1)
        ELSE <<>>

\* The bytes 0x00 and 0x07, written as Go writes them.
Nul == "\\x00"
Bel == "\\x07"

\* The control bytes of the model (url.Parse: b < ' ' || b == 0x7f).
CtlBytes == {Nul, Bel}

\* url.Parse returns an error for a string with a control byte in it.
isValidURL(urlStr) ==
    /\ \A i \in 1..Len(urlStr) : urlStr[i] \notin CtlBytes
    /\ urlScheme(urlStr) # <<>>
    /\ urlHost(urlStr) # <<>>

reddit_com == <<"r", "e", "d", "d", "i", "t", ".", "c", "o", "m">>
redd_it == <<"r", "e", "d", "d", ".", "i", "t">>

\* A check of the host alone: the host is reddit.com or redd.it.
isRedditURL_HostOnly(url) == urlHost(url) \in {reddit_com, redd_it}

isRedditURL(url) == Contains(url, reddit_com) \/ Contains(url, redd_it)

blockedDomains ==
    << <<"x", ".", "c", "o", "m">>,
       <<"t", "w", "i", "t", "t", "e", "r", ".", "c", "o", "m">>,
       <<"f", "a", "c", "e", "b", "o", "o", "k", ".", "c", "o", "m">>,
       <<"i", "n", "s", "t", "a", "g", "r", "a", "m", ".", "c", "o", "m">>,
       <<"l", "i", "n", "k", "e", "d", "i", "n", ".", "c", "o", "m">> >>

\* A blocklist matched against the host name.
isBlockedURL_HostEquals(url) ==
    \E k \in 1..Len(blockedDomains) : urlHost(url) = blockedDomains[k]

isBlockedURL(url) ==
    \E k \in 1..Len(blockedDomains) : Contains(url, blockedDomains[k])

(* The URLs of the model *)
UrlA == <<"h", ":", "/", "/", "a", ".", "i", "o">>
UrlB == <<"h", ":", "/", "/", "b", ".", "i", "o">>
UrlReddit == <<"h", ":", "/", "/", "r", "e", "d", "d", ".", "i", "t", "/", "a">>
UrlBlocked == <<"h", ":", "/", "/", "x", ".", "c", "o", "m", "/", "a">>
UrlBad == <<"a", ".", "i", "o">>
UrlEmpty == <<>>

URLs == {UrlA, UrlB, UrlReddit, UrlBlocked, UrlBad}

-----------------------------------------------------------------------------
(* time.Time, and the TEXT the store keeps for it *)

TimeNow == [t |-> now, loc |-> tz]

TimeAdd(x, h) == [t |-> x.t + h, loc |-> x.loc]

\* A bound time.Time parameter becomes the TEXT of time.Time.String(): the
\* wall clock read in the value's Location, followed by the zone.
FormatTime(x) == [wall |-> x.t + x.loc, rest |-> <<x.loc>>]

\* Scan of a DATETIME column back into a time.Time.
ParseTime(s) == [t |-> s.wall - s.rest[1], loc |-> s.rest[1]]

\* datetime('now'): "YYYY-MM-DD HH:MM:SS" of the UTC wall clock, nothing after.
datetimeNow == [wall |-> now, rest |-> <<>>]

\* Comparison of two TEXT values (BINARY collation): the wall-clock prefix
\* decides; with equal prefixes the longer text is the greater.
SqlTextGT(a, b) ==
    \/ a.wall > b.wall
    \/ a.wall = b.wall /\ Len(a.rest) > Len(b.rest)

SqlTextLE(a, b) == ~SqlTextGT(a, b)

-----------------------------------------------------------------------------
(* The extractor.  The HTML text is given as the element nodes html.Parse  *)
(* makes of it, in document order (the order of the recursive walk):       *)
(*   [tag |-> "meta", attr |-> <<[Key, Val], ...>>, text |-> <<>>]         *)
(*   [tag |-> "title" | "p" | ..., attr |-> <<>>, text |-> <<s1, ...>>]    *)
(* where text lists the Data of the text nodes below the element.          *)

Space == " "

Meta(key, val, content) ==
    [tag |-> "meta",
     attr |-> <<[Key |-> key, Val |-> val], [Key |-> "content", Val |-> content]>>,
     text |-> <<>>]

Elem(tag, text) == [tag |-> tag, attr |-> <<>>, text |-> text]

Rep(c, n) == [i \in 1..n |-> c]

RECURSIVE TrimLeft(_)
TrimLeft(s) ==
    IF s # <<>> /\ Head(s) = Space THEN TrimLeft(Tail(s)) ELSE s

RECURSIVE TrimRight(_)
TrimRight(s) ==
    IF s # <<>> /\ s[Len(s)] = Space THEN TrimRight(SubSeq(s, 1, Len(s) - 1)) ELSE s

\* strings.TrimSpace
TrimSpace(s) == TrimRight(TrimLeft(s))

\* og := &OpenGraphData{}
EmptyOG ==
    [URL |-> <<>>, Title |-> <<>>, Description |-> <<>>, Image |-> <<>>,
     SiteName |-> <<>>, FetchedAt |-> [t |-> 0, loc |-> 0],
     ExpiresAt |-> [t |-> 0, loc |-> 0]]

\* The loop over n.Attr: the value of the last attribute with the key, the
\* zero value none if there is no such attribute.
RECURSIVE AttrVal(_, _, _)
AttrVal(attr, key, none) ==
    IF attr = <<>> THEN none
    ELSE IF attr[Len(attr)].Key = key THEN attr[Len(attr)].Val
    ELSE AttrVal(SubSeq(attr, 1, Len(attr) - 1), key, none)

\* A processMetaTag in which an og: tag fills a field only while it is empty.
processMetaTag_FirstWins(n, og) ==
    LET property == AttrVal(n.attr, "property", "")
        content == AttrVal(n.attr, "content", <<>>)
        name == AttrVal(n.attr, "name", "")
        og1 == CASE property = "og:title" /\ og.Title = <<>> -> [og EXCEPT !.Title = content]
                 [] property = "og:description" /\ og.Description = <<>> ->
                        [og EXCEPT !.Description = content]
                 [] property = "og:image" /\ og.Image = <<>> -> [og EXCEPT !.Image = content]
                 [] property = "og:site_name" /\ og.SiteName = <<>> ->
                        [og EXCEPT !.SiteName = content]
                 [] OTHER -> og
        og2 == IF og1.Description = <<>> /\ name \in {"description", "twitter:description"}
               THEN [og1 EXCEPT !.Description = content] ELSE og1
        og3 == IF og2.Image = <<>> /\ name = "twitter:image"
               THEN [og2 EXCEPT !.Image = content] ELSE og2
    IN  IF og3.Title = <<>> /\ name = "twitter:title"
        THEN [og3 EXCEPT !.Title = content] ELSE og3

\* processMetaTag: the og: properties are assigned whatever the field holds;
\* the name= fallbacks only while the field is empty.
processMetaTag(n, og) ==
    LET property == AttrVal(n.attr, "property", "")
        content == AttrVal(n.attr, "content", <<>>)
        name == AttrVal(n.attr, "name", "")
        og1 == CASE property = "og:title" -> [og EXCEPT !.Title = content]
                 [] property = "og:description" -> [og EXCEPT !.Description = content]
                 [] property = "og:image" -> [og EXCEPT !.Image = content]
                 [] property = "og:site_name" -> [og EXCEPT !.SiteName = content]
                 [] OTHER -> og
        og2 == IF og1.Description = <<>> /\ name \in {"description", "twitter:description"}
               THEN [og1 EXCEPT !.Description = content] ELSE og1
        og3 == IF og2.Image = <<>> /\ name = "twitter:image"
               THEN [og2 EXCEPT !.Image = content] ELSE og2
    IN  IF og3.Title = <<>> /\ name = "twitter:title"
        THEN [og3 EXCEPT !.Title = content] ELSE og3

\* A walk that passes over the <title> element.
extractMetaAt_NoTitleElement(n, og) ==
    IF n.tag = "meta" THEN processMetaTag(n, og) ELSE og

\* What extractMeta does at one node: a meta element goes to processMetaTag,
\* a title element gives the title while none is set.
extractMetaAt(n, og) ==
    CASE n.tag = "meta" -> processMetaTag(n, og)
      [] n.tag = "title" /\ og.Title = <<>> /\ n.text # <<>> ->
             [og EXCEPT !.Title = TrimSpace(n.text[1])]
      [] OTHER -> og

\* The walk extractMeta over the nodes from the k-th on; og1 is the record
\* as the k-th node leaves it.
RECURSIVE extractMeta(_, _, _)
extractMeta(doc, k, og) ==
    IF k > Len(doc) THEN og
    ELSE CHOOSE r \in {extractMeta(doc, k + 1, og1) :
                           og1 \in {extractMetaAt(doc[k], og)}} : TRUE

\* extractText: the Data of the text nodes below the element, in order.
RECURSIVE extractText(_)
extractText(text) ==
    IF text = <<>> THEN <<>> ELSE Head(text) \o extractText(Tail(text))

\* An extractFirstParagraph that takes the first <p> whatever its length.
extractFirstParagraph_AnyLength(doc) ==
    LET ps == {k \in 1..Len(doc) : doc[k].tag = "p"}
    IN  IF ps = {} THEN <<>>
        ELSE TrimSpace(extractText(doc[CHOOSE k \in ps : \A j \in ps : k <= j].text))

\* extractFirstParagraph: the first <p> whose trimmed text is longer than 20.
extractFirstParagraph(doc) ==
    LET ps == {k \in 1..Len(doc) :
                  /\ doc[k].tag = "p"
                  /\ Len(TrimSpace(extractText(doc[k].text))) > 20}
    IN  IF ps = {} THEN <<>>
        ELSE TrimSpace(extractText(doc[CHOOSE k \in ps : \A j \in ps : k <= j].text))

\* applyFallbacks: the first paragraph for an empty description; the host of
\* og.URL for an empty site name when og.URL is set.
applyFallbacks(og, doc) ==
    LET og1 == IF og.Description = <<>>
               THEN [og EXCEPT !.Description = extractFirstParagraph(doc)] ELSE og
    IN  IF og1.SiteName = <<>> /\ og1.URL # <<>>
        THEN [og1 EXCEPT !.SiteName = urlHost(og1.URL)] ELSE og1

\* parseOpenGraphTags: html.Parse of a string raises no error; og is the
\* record as extractMeta leaves it.
parseOpenGraphTags(doc) ==
    CHOOSE r \in {applyFallbacks(og, doc) : og \in {extractMeta(doc, 1, EmptyOG)}} : TRUE

-----------------------------------------------------------------------------
(* The cache store: table opengraph_cache, url TEXT PRIMARY KEY *)

RowOf(og) ==
    [url |-> og.URL, title |-> og.Title, description |-> og.Description,
     image |-> og.Image, site_name |-> og.SiteName,
     fetched_at |-> FormatTime(og.FetchedAt),
     expires_at |-> FormatTime(og.ExpiresAt), version |-> 1]

ScanRow(r) ==
    [URL |-> r.url, Title |-> r.title, Description |-> r.description,
     Image |-> r.image, SiteName |-> r.site_name,
     FetchedAt |-> ParseTime(r.fetched_at),
     ExpiresAt |-> ParseTime(r.expires_at)]

\* SELECT ... WHERE url = ? AND expires_at > datetime('now'); sql.ErrNoRows
\* gives nil.  The result is <<>> (nil) or <<og>>.
GetCachedOpenGraph(url) ==
    LET found == {r \in rows : r.url = url /\ SqlTextGT(r.expires_at, datetimeNow)}
    IN  IF found = {} THEN <<>> ELSE <<ScanRow(CHOOSE r \in found : TRUE)>>

\* INSERT OR IGNORE: a row already there for the URL is kept.
SaveCachedOpenGraph_InsertOrIgnore(og) ==
    IF \E r \in rows : r.url = og.URL THEN rows ELSE rows \cup {RowOf(og)}

\* A put that empties the table first.
SaveCachedOpenGraph_Truncate(og) == {RowOf(og)}

\* An upsert that updates the row in conflict but for its title.
SaveCachedOpenGraph_KeepTitle(og) ==
    IF \E r \in rows : r.url = og.URL
    THEN {r \in rows : r.url # og.URL}
         \cup {[RowOf(og) EXCEPT !.title = r.title] : r \in {x \in rows : x.url = og.URL}}
    ELSE rows \cup {RowOf(og)}

\* INSERT OR REPLACE: the row in conflict on the primary key is deleted, the
\* new row is inserted.
SaveCachedOpenGraph(og) ==
    {r \in rows : r.url # og.URL} \cup {RowOf(og)}

\* DELETE FROM opengraph_cache WHERE expires_at <= datetime('now')
ExpiredRows == {r \in rows : SqlTextLE(r.expires_at, datetimeNow)}

\* A sweep that deletes one expired row per run.
CleanupExpiredEntries_OneAtATime ==
    IF ExpiredRows = {} THEN rows ELSE rows \ {CHOOSE r \in ExpiredRows : TRUE}

CleanupExpiredEntries == rows \ ExpiredRows

-----------------------------------------------------------------------------
(* The fetcher *)

\* A cleanup that lets any image value through.
cleanupOpenGraphData_AnyImage(og) ==
    [og EXCEPT !.Title = TrimSpace(og.Title),
               !.Description = TrimSpace(og.Description),
               !.SiteName = TrimSpace(og.SiteName)]

\* cleanupOpenGraphData: long values cut, an image that is no URL cleared,
\* white space trimmed.
cleanupOpenGraphData(og) ==
    LET d == IF Len(og.Description) > 500
             THEN SubSeq(og.Description, 1, 497) \o <<".", ".", ".">>
             ELSE og.Description
        t == IF Len(og.Title) > 200
             THEN SubSeq(og.Title, 1, 197) \o <<".", ".", ".">>
             ELSE og.Title
        g == IF og.Image # <<>> /\ ~isValidURL(og.Image) THEN <<>> ELSE og.Image
    IN  [og EXCEPT !.Title = TrimSpace(t), !.Description = TrimSpace(d),
                   !.Image = g, !.SiteName = TrimSpace(og.SiteName)]

\* const maxBodySize = 1024 * 1024
maxBodySize == 1048576

\* A response body is a sequence of segments [bytes, node]: an element of
\* the page (node = <<n>>) or text that holds none (node = <<>>), with the
\* number of bytes it takes.
Seg(bytes, node) == [bytes |-> bytes, node |-> node]

RECURSIVE BodySize(_)
BodySize(body) ==
    IF body = <<>> THEN 0 ELSE Head(body).bytes + BodySize(Tail(body))

\* The nodes of the segments that end within the first limit bytes.
RECURSIVE NodesWithin(_, _)
NodesWithin(body, limit) ==
    IF body = <<>> \/ Head(body).bytes > limit THEN <<>>
    ELSE Head(body).node \o NodesWithin(Tail(body), limit - Head(body).bytes)

\* A read of the whole body, whatever its size.
LimitRead_NoLimit(body) ==
    [bytes |-> BodySize(body), doc |-> NodesWithin(body, BodySize(body))]

\* io.ReadAll(io.LimitReader(resp.Body, maxBodySize)) and string(body): the
\* text is the first maxBodySize bytes of the body; an element cut by the
\* limit is no element of the text.
LimitRead(body) ==
    LET size == BodySize(body)
    IN  [bytes |-> IF size > maxBodySize THEN maxBodySize ELSE size,
         doc |-> NodesWithin(body, maxBodySize)]

text_html == <<"t", "e", "x", "t", "/", "h", "t", "m", "l">>
application_xhtml == <<"a", "p", "p", "l", "i", "c", "a", "t", "i", "o", "n", "/", "x", "h", "t", "m", "l">>

\* The two pages the servers of the coordinator's specifications serve.
PageBodies ==
    << << Seg(40, << Meta("property", "og:title", <<"t", "1">>) >>),
          Seg(40, << Meta("property", "og:description", <<"d", "1">>) >>),
          Seg(40, << Meta("property", "og:image", <<"h", ":", "/", "/", "i", ".", "i", "o", "/", "1">>) >>),
          Seg(40, << Meta("property", "og:site_name", <<"s", "1">>) >>) >>,
       << Seg(40, << Meta("property", "og:title", <<"t", "2">>) >>),
          Seg(40, << Meta("property", "og:description", <<"d", "2">>) >>),
          Seg(40, << Meta("property", "og:image", <<"h", ":", "/", "/", "i", ".", "i", "o", "/", "2">>) >>),
          Seg(40, << Meta("property", "og:site_name", <<"s", "2">>) >>) >> >>

\* What parseOpenGraphTags and cleanupOpenGraphData make of the two pages.
Pages ==
    [p \in DOMAIN PageBodies |->
        cleanupOpenGraphData(parseOpenGraphTags(LimitRead(PageBodies[p]).doc))]

\* What the HTTP exchange can come to: client.Do fails (err), or a response
\* with a status, a Content-Type and a body, which may fail to be read.
Response(err, status, ctype, readErr, body) ==
    [err |-> err, status |-> status, ctype |-> ctype, readErr |-> readErr,
     body |-> body]

Responses(e) ==
    IF e = "steady"
    THEN {Response(FALSE, 200, text_html, FALSE, PageBodies[1])}
    ELSE {Response(FALSE, 200, text_html, FALSE, PageBodies[1]),
          Response(FALSE, 200, application_xhtml, FALSE, PageBodies[2]),
          Response(FALSE, 404, text_html, FALSE, PageBodies[1]),
          Response(FALSE, 200, <<"i", "m", "a", "g", "e", "/", "p", "n", "g">>, FALSE, PageBodies[1]),
          Response(FALSE, 200, text_html, TRUE, PageBodies[1]),
          Response(TRUE, 0, <<>>, FALSE, <<>>)}

\* Whether a storage call can fail in this run.
StorageErrs(e) == IF e = "steady" THEN {FALSE} ELSE {FALSE, TRUE}

\* The error FetchOpenGraphData returns for a response ("": nil).
FetchError(resp) ==
    IF resp.err THEN "failed to fetch URL"
    ELSE IF resp.status # 200 THEN "HTTP error"
    ELSE IF ~Contains(resp.ctype, text_html) /\ ~Contains(resp.ctype, application_xhtml)
    THEN "unsupported content type"
    ELSE IF resp.readErr THEN "failed to read response body"
    ELSE ""

\* The record FetchOpenGraphData makes of the text it read, stamped with the
\* expiry given.
Stamped(url, text, fetched, expires) ==
    CHOOSE r \in {cleanupOpenGraphData(og) :
                     og \in {[parseOpenGraphTags(doc) EXCEPT
                                !.URL = url, !.FetchedAt = fetched,
                                !.ExpiresAt = expires] : doc \in {text.doc}}} : TRUE

\* A fetcher that turns a failure into an empty record (a cached failure).
FetchOpenGraphData_EmptyOnFailure(url, resp) ==
    LET err == FetchError(resp)
        text == LimitRead(resp.body)
        expires == TimeAdd(TimeNow, OpenGraphCacheHours)
    IN  [og |-> IF err = "" THEN <<Stamped(url, text, TimeNow, expires)>>
                ELSE <<[EmptyOG EXCEPT !.URL = url, !.FetchedAt = TimeNow,
                                       !.ExpiresAt = expires]>>,
         err |-> "",
         read |-> IF err = "" THEN text.bytes ELSE 0,
         text |-> IF err = "" THEN <<text>> ELSE <<>>]

\* A fetcher that stamps the expiry without adding the cache lifetime.
FetchOpenGraphData_NoLifetime(url, resp) ==
    LET err == FetchError(resp)
        text == LimitRead(resp.body)
    IN  [og |-> IF err = "" THEN <<Stamped(url, text, TimeNow, TimeNow)>> ELSE <<>>,
         err |-> err,
         read |-> IF err = "" THEN text.bytes ELSE 0,
         text |-> IF err = "" THEN <<text>> ELSE <<>>]

\* A fetcher that reads the body before it looks at the Content-Type.
FetchOpenGraphData_ReadFirst(url, resp) ==
    LET err == FetchError(resp)
        text == LimitRead(resp.body)
        n == TimeNow
    IN  [og |-> IF err = ""
                THEN <<Stamped(url, text, n, TimeAdd(n, OpenGraphCacheHours))>>
                ELSE <<>>,
         err |-> err,
         read |-> IF err \in {"", "unsupported content type"} THEN text.bytes ELSE 0,
         text |-> IF err = "" THEN <<text>> ELSE <<>>]

\* A fetcher that leaves the URL of the record as the parser returned it.
FetchOpenGraphData_NoURL(url, resp) ==
    LET err == FetchError(resp)
        text == LimitRead(resp.body)
        n == TimeNow
    IN  [og |-> IF err = ""
                THEN <<Stamped(<<>>, text, n, TimeAdd(n, OpenGraphCacheHours))>>
                ELSE <<>>,
         err |-> err,
         read |-> IF err = "" THEN text.bytes ELSE 0,
         text |-> IF err = "" THEN <<text>> ELSE <<>>]

\* FetchOpenGraphData from the response on.  og is what it returns, <<>> for
\* (nil, err) and <<og>> for (og, nil), and err the error; read is the number
\* of bytes of the body it has read (none unless it got as far as
\* io.ReadAll), text the string it handed to parseOpenGraphTags (<<>>: it
\* did not call it).
FetchOpenGraphData(url, resp) ==
    LET err == FetchError(resp)
        text == LimitRead(resp.body)
        n == TimeNow
    IN  [og |-> IF err = ""
                THEN <<Stamped(url, text, n, TimeAdd(n, OpenGraphCacheHours))>>
                ELSE <<>>,
         err |-> err,
         read |-> IF err = "" THEN text.bytes ELSE 0,
         text |-> IF err = "" THEN <<text>> ELSE <<>>]

-----------------------------------------------------------------------------
(* The coordinator: GetOpenGraphPreview inside the goroutines of           *)
(* FetchConcurrentOpenGraph.  A goroutine is at                            *)
(*   "wait"     blocked on  semaphore <- struct{}{}                        *)
(*   "preview"  holding a slot, entering GetOpenGraphPreview               *)
(*   "fetch"    in FetchOpenGraphData, its GET issued, no response yet     *)
(*   "save"     FetchOpenGraphData returned og, SaveCachedOpenGraph next   *)
(*   "send"     GetOpenGraphPreview returned; send, release, Done next     *)
(*   "done"     finished;  "none": no goroutine (the URL is "")            *)
(* og is what GetOpenGraphPreview returns: <<>> for nil, else <<record>>.  *)
(* gets counts the HTTP GETs issued; lookup records the outcome of the     *)
(* cache read of the call ("none", "hit", "miss" or "error"); put that of   *)
(* its cache write ("none", "ok" or "failed"); status is the status code   *)
(* of the response to its GET (0: none).                                   *)
(***************************************************************************)

NewTask(url) ==
    [pc |-> IF url = <<>> THEN "none" ELSE "wait",
     og |-> <<>>, gets |-> 0, lookup |-> "none", put |-> "none",
     status |-> 0]

Tasks == DOMAIN task

NoPut == [u \in URLs |-> <<>>]

NoFail == [u \in URLs |-> "none"]

\* ret.n is the count the call hands to its caller (<<>>: none), ret.logged
\* the count it writes to the log, ret.run how many sweeps in a row this is
\* at this instant (2: two or more).
NoCall ==
    [op |-> "none", url |-> <<>>, og |-> <<>>, err |-> FALSE, at |-> 0,
     n |-> <<>>, logged |-> <<>>, run |-> 0]

\* What the three calls leave in ret.
GetRet(url, rerr) ==
    [op |-> "get", url |-> url,
     og |-> IF rerr THEN <<>> ELSE GetCachedOpenGraph(url),
     err |-> rerr, at |-> now, n |-> <<>>, logged |-> <<>>, run |-> 0]

PutRet(og, werr) ==
    [op |-> "put", url |-> og.URL, og |-> <<og>>, err |-> werr,
     at |-> now, n |-> <<>>, logged |-> <<>>, run |-> 0]

SweepRet(xerr) ==
    LET rowsAffected == Cardinality(rows \ CleanupExpiredEntries)
    IN  [op |-> "sweep", url |-> <<>>, og |-> <<>>, err |-> xerr,
         at |-> now, n |-> <<>>,
         logged |-> IF ~xerr /\ rowsAffected > 0 THEN <<rowsAffected>> ELSE <<>>,
         run |-> IF ret.op = "sweep" /\ ret.at = now /\ ~ret.err /\ ~xerr
                 THEN 2 ELSE 1]

\* The methods of OpenGraphDB that take mu, one caller for each (two for
\* SaveCachedOpenGraph).
LockOps ==
    <<"GetCachedOpenGraph", "GetCacheStats", "SaveCachedOpenGraph",
      "SaveCachedOpenGraph", "CleanupExpiredEntries", "VacuumDatabase", "Close">>

Clients == DOMAIN LockOps

ReadOps == {"GetCachedOpenGraph", "GetCacheStats"}

NoLock == [c \in Clients |-> "idle"]

\* The columns of opengraph_cache as createSchema declares them.
Columns ==
    <<"url", "title", "description", "image", "site_name", "fetched_at",
      "expires_at", "version">>

\* No function has been called on its own.
NoFn == [op |-> "none", arg |-> <<>>, out |-> <<>>]

\* The argument a function is about to be called on.
FnArg(x) == [op |-> "none", arg |-> x, out |-> <<>>]

\* FetchConcurrentOpenGraph(b) up to the collection loop: nil for an empty
\* list, else one goroutine per non-empty URL, the closer, and the empty map.
StartBatch(b) ==
    /\ phase \in {"idle", "returned"}
    /\ batches < MaxBatches
    /\ batches' = batches + 1
    /\ urls' = b
    /\ task' = [i \in 1..Len(b) |-> NewTask(b[i])]
    /\ wg' = Cardinality({i \in 1..Len(b) : b[i] # <<>>})
    /\ semaphore' = 0
    /\ results' = <<>>
    /\ closed' = FALSE
    /\ data' = <<>>
    /\ phase' = IF Len(b) = 0 THEN "returned" ELSE "collect"
    /\ UNCHANGED <<now, tz, env, rows, saved,
                   lastFail, ret, mu, schema, db, fn>>

\* Acquire as it would be were the semaphore never full.
Acquire_Unbounded(i) ==
    /\ task[i].pc = "wait"
    /\ semaphore' = semaphore + 1
    /\ task' = [task EXCEPT ![i].pc = "preview"]
    /\ UNCHANGED <<now, tz, env, rows, urls, results, closed, wg, data, phase,
                   batches, saved, lastFail, ret, mu, schema, db, fn>>

\* semaphore <- struct{}{} : blocks while the channel holds maxConcurrent tokens.
Acquire(i) ==
    /\ task[i].pc = "wait"
    /\ semaphore < maxConcurrent
    /\ semaphore' = semaphore + 1
    /\ task' = [task EXCEPT ![i].pc = "preview"]
    /\ UNCHANGED <<now, tz, env, rows, urls, results, closed, wg, data, phase,
                   batches, saved,
                   lastFail, ret, mu, schema, db, fn>>

\* GetOpenGraphPreview without its two classification checks.
Preview_NoSkip(i) ==
    /\ task[i].pc = "preview"
    /\ \E rerr \in StorageErrs(env) :
         LET cached == IF rerr THEN <<>> ELSE GetCachedOpenGraph(urls[i])
             look == IF rerr THEN "error"
                     ELSE IF cached # <<>> THEN "hit" ELSE "miss"
         IN  IF cached # <<>>
             THEN task' = [task EXCEPT ![i].pc = "send", ![i].og = cached,
                                       ![i].lookup = look]
             ELSE task' = [task EXCEPT ![i].pc = "fetch", ![i].lookup = look,
                                       ![i].gets = @ + 1]
    /\ UNCHANGED <<now, tz, env, rows, urls, semaphore, results, closed, wg,
                   data, phase, batches, saved, lastFail, ret, mu, schema, db, fn>>

\* GetOpenGraphPreview returning nil when the cache lookup raises an error.
Preview_FailClosed(i) ==
    /\ task[i].pc = "preview"
    /\ IF isRedditURL(urls[i]) \/ isBlockedURL(urls[i])
       THEN task' = [task EXCEPT ![i].pc = "send", ![i].og = <<>>]
       ELSE \E rerr \in StorageErrs(env) :
              LET cached == IF rerr THEN <<>> ELSE GetCachedOpenGraph(urls[i])
                  look == IF rerr THEN "error"
                          ELSE IF cached # <<>> THEN "hit" ELSE "miss"
              IN  IF cached # <<>>
                  THEN task' = [task EXCEPT ![i].pc = "send", ![i].og = cached,
                                            ![i].lookup = look]
                  ELSE IF rerr \/ ~isValidURL(urls[i])
                  THEN task' = [task EXCEPT ![i].pc = "send", ![i].og = <<>>,
                                            ![i].lookup = look]
                  ELSE task' = [task EXCEPT ![i].pc = "fetch", ![i].lookup = look,
                                            ![i].gets = @ + 1]
    /\ lastFail' = IF task'[i].pc = "send" /\ task'[i].og = <<>>
                      /\ task'[i].lookup # "none"
                   THEN [lastFail EXCEPT ![urls[i]] = task'[i].lookup]
                   ELSE lastFail
    /\ UNCHANGED <<now, tz, env, rows, urls, semaphore, results, closed, wg,
                   data, phase, batches, saved, ret, mu, schema, db, fn>>

\* GetOpenGraphPreview from its entry to the first of: a return, or the GET
\* of FetchOpenGraphData going out.
Preview(i) ==
    /\ task[i].pc = "preview"
    /\ IF isRedditURL(urls[i]) \/ isBlockedURL(urls[i])
       THEN task' = [task EXCEPT ![i].pc = "send", ![i].og = <<>>]
       ELSE \E rerr \in StorageErrs(env) :
              LET cached == IF rerr THEN <<>> ELSE GetCachedOpenGraph(urls[i])
                  look == IF rerr THEN "error"
                          ELSE IF cached # <<>> THEN "hit" ELSE "miss"
              IN  IF cached # <<>>
                  THEN task' = [task EXCEPT ![i].pc = "send", ![i].og = cached,
                                            ![i].lookup = look]
                  ELSE IF ~isValidURL(urls[i])
                  THEN task' = [task EXCEPT ![i].pc = "send", ![i].og = <<>>,
                                            ![i].lookup = look]
                  ELSE task' = [task EXCEPT ![i].pc = "fetch", ![i].lookup = look,
                                            ![i].gets = @ + 1]
    /\ lastFail' = IF task'[i].pc = "send" /\ task'[i].og = <<>>
                      /\ task'[i].lookup # "none"
                   THEN [lastFail EXCEPT ![urls[i]] = task'[i].lookup]
                   ELSE lastFail
    /\ UNCHANGED <<now, tz, env, rows, urls, semaphore, results, closed, wg,
                   data, phase, batches, saved, ret, mu, schema, db, fn>>

\* A fetcher that sends its GET a second time when the first attempt fails.
Respond_RetryOnce(i) ==
    /\ task[i].pc = "fetch"
    /\ \E resp \in Responses(env) :
         LET f == FetchOpenGraphData(urls[i], resp)
         IN  /\ task' = IF f.og = <<>> /\ task[i].gets < 2
                        THEN [task EXCEPT ![i].gets = @ + 1,
                                          ![i].status = resp.status]
                        ELSE [task EXCEPT ![i].og = f.og,
                                          ![i].status = resp.status,
                                          ![i].pc = IF f.og = <<>> THEN "send" ELSE "save"]
             /\ lastFail' = IF f.og = <<>>
                            THEN [lastFail EXCEPT ![urls[i]] = task[i].lookup]
                            ELSE lastFail
    /\ UNCHANGED <<now, tz, env, rows, urls, semaphore, results, closed, wg,
                   data, phase, batches, saved, ret, mu, schema, db, fn>>

\* The response resp (or the transport error) arrives; FetchOpenGraphData
\* returns.
Arrive(i, resp) ==
    /\ task[i].pc = "fetch"
    /\ \E f \in {FetchOpenGraphData(urls[i], resp)} :
           /\ task' = [task EXCEPT ![i].og = f.og,
                                   ![i].status = resp.status,
                                   ![i].pc = IF f.og = <<>> THEN "send" ELSE "save"]
           /\ lastFail' = IF f.og = <<>>
                          THEN [lastFail EXCEPT ![urls[i]] = task[i].lookup]
                          ELSE lastFail
    /\ UNCHANGED <<now, tz, env, rows, urls, semaphore, results, closed, wg,
                   data, phase, batches, saved, ret, mu, schema, db>>

\* The fetch of goroutine i comes to one of the ends the run allows.
Respond(i) ==
    /\ \E resp \in Responses(env) : Arrive(i, resp)
    /\ fn' = fn

\* A save whose error makes GetOpenGraphPreview return nil.
Save_NilOnWriteError(i) ==
    /\ task[i].pc = "save"
    /\ \E werr \in StorageErrs(env) :
         IF werr
         THEN /\ task' = [task EXCEPT ![i].pc = "send", ![i].put = "failed",
                                      ![i].og = <<>>]
              /\ UNCHANGED <<rows, saved, lastFail>>
         ELSE /\ task' = [task EXCEPT ![i].pc = "send", ![i].put = "ok"]
              /\ rows' = SaveCachedOpenGraph(task[i].og[1])
              /\ saved' = [saved EXCEPT ![urls[i]] = task[i].og]
              /\ lastFail' = [lastFail EXCEPT ![urls[i]] = "none"]
    /\ UNCHANGED <<now, tz, env, urls, semaphore, results, closed, wg, data,
                   phase, batches, ret, mu, schema, db, fn>>

\* ogf.db.SaveCachedOpenGraph(og); an error is logged and og still returned.
Save(i) ==
    /\ task[i].pc = "save"
    /\ \E werr \in StorageErrs(env) :
         IF werr
         THEN /\ task' = [task EXCEPT ![i].pc = "send", ![i].put = "failed"]
              /\ UNCHANGED <<rows, saved, lastFail>>
         ELSE /\ task' = [task EXCEPT ![i].pc = "send", ![i].put = "ok"]
              /\ rows' = SaveCachedOpenGraph(task[i].og[1])
              /\ saved' = [saved EXCEPT ![urls[i]] = task[i].og]
              /\ lastFail' = [lastFail EXCEPT ![urls[i]] = "none"]
    /\ UNCHANGED <<now, tz, env, urls, semaphore, results, closed, wg, data,
                   phase, batches, ret, mu, schema, db, fn>>

\* A goroutine that ends without giving its slot back.
Finish_NoRelease(i) ==
    /\ task[i].pc = "send"
    /\ Len(results) < Len(urls)
    /\ results' = Append(results, <<urls[i], task[i].og>>)
    /\ wg' = wg - 1
    /\ task' = [task EXCEPT ![i].pc = "done"]
    /\ UNCHANGED <<now, tz, env, rows, urls, semaphore, closed, data, phase,
                   batches, saved, lastFail, ret, mu, schema, db, fn>>

\* results <- result{u, og}, then the deferred <-semaphore and wg.Done().
Finish(i) ==
    /\ task[i].pc = "send"
    /\ Len(results) < Len(urls)
    /\ results' = Append(results, <<urls[i], task[i].og>>)
    /\ semaphore' = semaphore - 1
    /\ wg' = wg - 1
    /\ task' = [task EXCEPT ![i].pc = "done"]
    /\ UNCHANGED <<now, tz, env, rows, urls, closed, data, phase, batches,
                   saved,
                   lastFail, ret, mu, schema, db, fn>>

\* go func() { wg.Wait(); close(results) }()
CloseResults ==
    /\ phase = "collect"
    /\ wg = 0
    /\ ~closed
    /\ closed' = TRUE
    /\ UNCHANGED <<now, tz, env, rows, urls, task, semaphore, results, wg,
                   data, phase, batches, saved,
                   lastFail, ret, mu, schema, db, fn>>

\* The collection loop without its nil check.
Collect_KeepNil ==
    /\ phase = "collect"
    /\ results # <<>>
    /\ data' = (Head(results)[1] :> Head(results)[2]) @@ data
    /\ results' = Tail(results)
    /\ UNCHANGED <<now, tz, env, rows, urls, task, semaphore, closed, wg,
                   phase, batches, saved, lastFail, ret, mu, schema, db, fn>>

\* One round of  for res := range results : a nil og is dropped.
Collect ==
    /\ phase = "collect"
    /\ results # <<>>
    /\ LET res == Head(results)
       IN  data' = IF res[2] # <<>> THEN (res[1] :> res[2]) @@ data ELSE data
    /\ results' = Tail(results)
    /\ UNCHANGED <<now, tz, env, rows, urls, task, semaphore, closed, wg,
                   phase, batches, saved,
                   lastFail, ret, mu, schema, db, fn>>

\* A collection loop that stops at the first moment the channel is empty.
Return_OnEmpty ==
    /\ phase = "collect"
    /\ results = <<>>
    /\ phase' = "returned"
    /\ UNCHANGED <<now, tz, env, rows, urls, task, semaphore, results, closed,
                   wg, data, batches, saved, lastFail, ret, mu, schema, db, fn>>

\* The range loop ends on the closed, drained channel; data is returned.
Return ==
    /\ phase = "collect"
    /\ results = <<>>
    /\ closed
    /\ phase' = "returned"
    /\ UNCHANGED <<now, tz, env, rows, urls, task, semaphore, results, closed,
                   wg, data, batches, saved,
                   lastFail, ret, mu, schema, db, fn>>

-----------------------------------------------------------------------------
(* The environment and the maintenance sweep *)

\* The clock, read from the first call on, advances between two calls of
\* FetchConcurrentOpenGraph (a call lasts seconds: the client's timeout is 8 s).
Tick ==
    /\ phase = "returned"
    /\ now + TickHours <= MaxNow
    /\ now' = now + TickHours
    /\ UNCHANGED <<tz, env, rows, urls, task, semaphore, results, closed, wg,
                   data, phase, batches, saved,
                   lastFail, ret, mu, schema, db, fn>>

\* db.CleanupExpiredEntries(): an error of Exec is returned; else the rows
\* are deleted, RowsAffected is logged when positive, and nil is returned.
Sweep ==
    /\ \E xerr \in StorageErrs(env) :
         /\ rows' = IF xerr THEN rows ELSE CleanupExpiredEntries
         /\ ret' = SweepRet(xerr)
    /\ UNCHANGED <<now, tz, env, coordVars, mu, schema, db, fn>>

-----------------------------------------------------------------------------
(* Specification of the coordinator *)

TZOffsets == {-8, 0, 8}

\* One URL at a time: GetOpenGraphPreview called again and again as the
\* clock advances.
Batches ==
    { <<UrlA>>, <<UrlB>>, <<UrlReddit>>, <<UrlBlocked>> }

Init ==
    /\ now = 0
    /\ tz \in TZOffsets
    /\ env = "any"
    /\ rows = {}
    /\ urls = <<>>
    /\ task = <<>>
    /\ semaphore = 0
    /\ results = <<>>
    /\ closed = FALSE
    /\ wg = 0
    /\ data = <<>>
    /\ phase = "idle"
    /\ batches = 0
    /\ saved = NoPut
    /\ lastFail = NoFail
    /\ ret = NoCall
    /\ mu = NoLock
    /\ schema = Columns
    /\ db = "ready"
    /\ fn = NoFn

Next ==
    \/ \E b \in Batches : StartBatch(b)
    \/ \E i \in Tasks : Acquire(i)
    \/ \E i \in Tasks : Preview(i)
    \/ \E i \in Tasks : Respond(i)
    \/ \E i \in Tasks : Save(i)
    \/ \E i \in Tasks : Finish(i)
    \/ CloseResults
    \/ Collect
    \/ Return
    \/ Tick
    \/ Sweep

Spec == Init /\ [][Next]_vars

-----------------------------------------------------------------------------
(* One call of FetchConcurrentOpenGraph over several URLs, servers and     *)
(* storage failing at will.                                                *)

BatchesMany ==
    { <<UrlA, UrlB>>, <<UrlA, UrlA, UrlA>>, <<UrlReddit, UrlA>>,
      <<UrlBlocked, UrlEmpty, UrlB>>, <<UrlBad, UrlB>>, <<UrlEmpty>>, <<>> }

InitBatch ==
    /\ now = 0
    /\ tz = 0
    /\ env = "any"
    /\ rows = {}
    /\ urls = <<>>
    /\ task = <<>>
    /\ semaphore = 0
    /\ results = <<>>
    /\ closed = FALSE
    /\ wg = 0
    /\ data = <<>>
    /\ phase = "idle"
    /\ batches = MaxBatches - 1
    /\ saved = NoPut
    /\ lastFail = NoFail
    /\ ret = NoCall
    /\ mu = NoLock
    /\ schema = Columns
    /\ db = "ready"
    /\ fn = NoFn

NextBatch ==
    \/ \E b \in BatchesMany : StartBatch(b)
    \/ \E i \in Tasks : Acquire(i)
    \/ \E i \in Tasks : Preview(i)
    \/ \E i \in Tasks : Respond(i)
    \/ \E i \in Tasks : Save(i)
    \/ \E i \in Tasks : Finish(i)
    \/ CloseResults
    \/ Collect
    \/ Return
    \/ Sweep

SpecBatch == InitBatch /\ [][NextBatch]_vars

-----------------------------------------------------------------------------
(* The pool: one call over PoolSize eligible URLs, servers and storage     *)
(* steady, so that only the scheduling of the goroutines varies.           *)

PoolBatch == [i \in 1..PoolSize |-> IF i % 2 = 1 THEN UrlA ELSE UrlB]

InitPool ==
    /\ now = 0
    /\ tz = 0
    /\ env = "steady"
    /\ rows = {}
    /\ urls = <<>>
    /\ task = <<>>
    /\ semaphore = 0
    /\ results = <<>>
    /\ closed = FALSE
    /\ wg = 0
    /\ data = <<>>
    /\ phase = "idle"
    /\ batches = MaxBatches - 1
    /\ saved = NoPut
    /\ lastFail = NoFail
    /\ ret = NoCall
    /\ mu = NoLock
    /\ schema = Columns
    /\ db = "ready"
    /\ fn = NoFn

NextPool ==
    \/ StartBatch(PoolBatch)
    \/ \E i \in Tasks : Acquire(i)
    \/ \E i \in Tasks : Preview(i)
    \/ \E i \in Tasks : Respond(i)
    \/ \E i \in Tasks : Save(i)
    \/ \E i \in Tasks : Finish(i)
    \/ CloseResults
    \/ Collect
    \/ Return

SpecPool == InitPool /\ [][NextPool]_vars

-----------------------------------------------------------------------------
(* Termination: one call of FetchConcurrentOpenGraph, every goroutine      *)
(* (the workers, the closer, the collecting caller) scheduled again and    *)
(* again, every GET answered or timed out (the client's Timeout).          *)

\* More URLs than maxConcurrent: two to fetch, the others skipped at the
\* classification (their goroutines take and give back a slot all the same).
LivePool ==
    [i \in 1..PoolSize |->
        IF i = 1 THEN UrlA ELSE IF i = PoolSize THEN UrlB ELSE UrlReddit]

\* The pool with steady servers; the small batches with everything failing
\* at will.
LiveBatches(e) ==
    IF e = "steady"
    THEN {LivePool}
    ELSE { <<UrlA, UrlB>>, <<UrlReddit, UrlA>>, <<UrlBlocked, UrlEmpty, UrlB>>,
           <<UrlBad, UrlB>>, <<UrlEmpty>>, <<UrlEmpty, UrlEmpty>> }

InitLive ==
    /\ now = 0
    /\ tz = 0
    /\ env \in {"steady", "any"}
    /\ rows = {}
    /\ urls = <<>>
    /\ task = <<>>
    /\ semaphore = 0
    /\ results = <<>>
    /\ closed = FALSE
    /\ wg = 0
    /\ data = <<>>
    /\ phase = "idle"
    /\ batches = MaxBatches - 1
    /\ saved = NoPut
    /\ lastFail = NoFail
    /\ ret = NoCall
    /\ mu = NoLock
    /\ schema = Columns
    /\ db = "ready"
    /\ fn = NoFn

NextLive ==
    \/ \E b \in LiveBatches(env) : StartBatch(b)
    \/ \E i \in Tasks : Acquire(i)
    \/ \E i \in Tasks : Preview(i)
    \/ \E i \in Tasks : Respond(i)
    \/ \E i \in Tasks : Save(i)
    \/ \E i \in Tasks : Finish(i)
    \/ CloseResults
    \/ Collect
    \/ Return

Fairness ==
    /\ WF_vars(\E i \in Tasks : Acquire(i))
    /\ WF_vars(\E i \in Tasks : Preview(i))
    /\ WF_vars(\E i \in Tasks : Respond(i))
    /\ WF_vars(\E i \in Tasks : Save(i))
    /\ WF_vars(\E i \in Tasks : Finish(i))
    /\ WF_vars(CloseResults)
    /\ WF_vars(Collect)
    /\ WF_vars(Return)

SpecLive == InitLive /\ [][NextLive]_vars /\ Fairness

-----------------------------------------------------------------------------
(* The store's API called directly (as the wrappers getCachedOpenGraph and *)
(* saveCachedOpenGraph of main.go do), with no call of the coordinator     *)
(* running.                                                                *)

Record(url, p, fetched, expires) ==
    [URL |-> url, Title |-> Pages[p].Title, Description |-> Pages[p].Description,
     Image |-> Pages[p].Image, SiteName |-> Pages[p].SiteName,
     FetchedAt |-> fetched, ExpiresAt |-> expires]

\* The records a caller saves at the current instant: freshly stamped ones,
\* and for UrlA also one whose expiry is already past.
PutRecords ==
    {Record(UrlA, p, TimeNow, TimeAdd(TimeNow, d)) :
        p \in {1, 2}, d \in {0 - TickHours, OpenGraphCacheHours}}
    \cup {Record(UrlB, 1, TimeNow, TimeAdd(TimeNow, OpenGraphCacheHours))}

ApiGet(url) ==
    /\ \E rerr \in StorageErrs(env) :
         ret' = GetRet(url, rerr)
    /\ UNCHANGED <<now, tz, env, rows, coordVars, mu, schema, db, fn>>

ApiPut(og) ==
    /\ \E werr \in StorageErrs(env) :
         /\ rows' = IF werr THEN rows ELSE SaveCachedOpenGraph(og)
         /\ saved' = IF werr THEN saved ELSE [saved EXCEPT ![og.URL] = <<og>>]
         /\ lastFail' = IF werr THEN lastFail
                        ELSE [lastFail EXCEPT ![og.URL] = "none"]
         /\ ret' = PutRet(og, werr)
    /\ UNCHANGED <<now, tz, env, urls, task, semaphore, results, closed, wg,
                   data, phase, batches, mu, schema, db, fn>>

InitStore ==
    /\ now = 0
    /\ tz \in TZOffsets
    /\ env = "any"
    /\ rows = {}
    /\ urls = <<>>
    /\ task = <<>>
    /\ semaphore = 0
    /\ results = <<>>
    /\ closed = FALSE
    /\ wg = 0
    /\ data = <<>>
    /\ phase = "returned"
    /\ batches = MaxBatches
    /\ saved = NoPut
    /\ lastFail = NoFail
    /\ ret = NoCall
    /\ mu = NoLock
    /\ schema = Columns
    /\ db = "ready"
    /\ fn = NoFn

NextStore ==
    \/ \E u \in {UrlA, UrlB} : ApiGet(u)
    \/ \E og \in PutRecords : ApiPut(og)
    \/ Sweep
    \/ Tick

SpecStore == InitStore /\ [][NextStore]_vars

-----------------------------------------------------------------------------
(* The lock of the store: sync.RWMutex mu, taken by every method.  A       *)
(* caller is at                                                            *)
(*   "idle"     before its call                                            *)
(*   "rwait"    blocked in mu.RLock(): a writer holds or awaits the lock   *)
(*   "rlocked"  holding the read lock, in the body of the method           *)
(*   "wqueue"   blocked in mu.Lock() behind another writer                 *)
(*   "wpend"    in mu.Lock(), new readers shut out, waiting for the        *)
(*              readers inside to leave                                    *)
(*   "wlocked"  holding the write lock, in the body of the method          *)
(*   "done"     returned (the deferred RUnlock / Unlock has run)           *)
(***************************************************************************)

ReadersIn == {c \in Clients : mu[c] = "rlocked"}

WritersIn == {c \in Clients : mu[c] = "wlocked"}

WriterAnnounced == \E c \in Clients : mu[c] \in {"wpend", "wlocked"}

\* mu.RLock(): passes unless a writer holds or awaits the lock.
RLock(c) ==
    /\ LockOps[c] \in ReadOps
    /\ \/ mu[c] = "idle"
       \/ mu[c] = "rwait" /\ ~WriterAnnounced
    /\ mu' = [mu EXCEPT ![c] = IF WriterAnnounced THEN "rwait" ELSE "rlocked"]
    /\ UNCHANGED <<now, tz, env, rows, coordVars, ret, schema, db, fn>>

\* The body of the reading method, then the deferred mu.RUnlock().
RUnlock(c) ==
    /\ mu[c] = "rlocked"
    /\ mu' = [mu EXCEPT ![c] = "done"]
    /\ IF LockOps[c] = "GetCachedOpenGraph"
       THEN \E rerr \in StorageErrs(env) : ret' = GetRet(UrlA, rerr)
       ELSE ret' = ret
    /\ UNCHANGED <<now, tz, env, rows, coordVars, schema, db, fn>>

\* A mu.Lock() that does not wait for the readers inside to leave.
Lock_IgnoreReaders(c) ==
    /\ LockOps[c] \notin ReadOps
    /\ mu[c] \in {"idle", "wqueue", "wpend"}
    /\ LET others == \E d \in Clients \ {c} : mu[d] \in {"wpend", "wlocked"}
           next == IF others THEN "wqueue" ELSE "wlocked"
       IN  /\ next # mu[c]
           /\ mu' = [mu EXCEPT ![c] = next]
    /\ UNCHANGED <<now, tz, env, rows, coordVars, ret, schema, db, fn>>

\* mu.Lock(): one writer at a time gets past the writers' mutex; it shuts
\* new readers out and waits until the readers inside have left.
Lock(c) ==
    /\ LockOps[c] \notin ReadOps
    /\ mu[c] \in {"idle", "wqueue", "wpend"}
    /\ LET others == \E d \in Clients \ {c} : mu[d] \in {"wpend", "wlocked"}
           next == IF others THEN "wqueue"
                   ELSE IF ReadersIn # {} THEN "wpend" ELSE "wlocked"
       IN  /\ next # mu[c]
           /\ mu' = [mu EXCEPT ![c] = next]
    /\ UNCHANGED <<now, tz, env, rows, coordVars, ret, schema, db, fn>>

\* The record a writing caller saves.
LockRecord(c) ==
    Record(UrlA, IF c = 3 THEN 1 ELSE 2, TimeNow, TimeAdd(TimeNow, OpenGraphCacheHours))

\* The body of the writing method, then the deferred mu.Unlock().
Unlock(c) ==
    /\ mu[c] = "wlocked"
    /\ mu' = [mu EXCEPT ![c] = "done"]
    /\ CASE LockOps[c] = "SaveCachedOpenGraph" ->
              \E werr \in StorageErrs(env) :
                 LET og == LockRecord(c)
                 IN  /\ rows' = IF werr THEN rows ELSE SaveCachedOpenGraph(og)
                     /\ saved' = IF werr THEN saved
                                 ELSE [saved EXCEPT ![og.URL] = <<og>>]
                     /\ lastFail' = IF werr THEN lastFail
                                    ELSE [lastFail EXCEPT ![og.URL] = "none"]
                     /\ ret' = PutRet(og, werr)
         [] LockOps[c] = "CleanupExpiredEntries" ->
              \E xerr \in StorageErrs(env) :
                 /\ rows' = IF xerr THEN rows ELSE CleanupExpiredEntries
                 /\ ret' = SweepRet(xerr)
                 /\ UNCHANGED <<saved, lastFail>>
         [] OTHER -> UNCHANGED <<rows, saved, lastFail, ret>>
    /\ UNCHANGED <<now, tz, env, urls, task, semaphore, results, closed, wg,
                   data, phase, batches, schema, db, fn>>

\* A row left by an earlier run, fetched 28 hours ago.
OldRecord ==
    Record(UrlB, 1, [t |-> 0 - OpenGraphCacheHours - TickHours, loc |-> 0],
           [t |-> 0 - TickHours, loc |-> 0])

InitLock ==
    /\ now = 0
    /\ tz = 0
    /\ env = "any"
    /\ rows = {RowOf(OldRecord)}
    /\ urls = <<>>
    /\ task = <<>>
    /\ semaphore = 0
    /\ results = <<>>
    /\ closed = FALSE
    /\ wg = 0
    /\ data = <<>>
    /\ phase = "returned"
    /\ batches = MaxBatches
    /\ saved = [NoPut EXCEPT ![UrlB] = <<OldRecord>>]
    /\ lastFail = NoFail
    /\ ret = NoCall
    /\ mu = NoLock
    /\ schema = Columns
    /\ db = "ready"
    /\ fn = NoFn

NextLock ==
    \/ \E c \in Clients : RLock(c)
    \/ \E c \in Clients : RUnlock(c)
    \/ \E c \in Clients : Lock(c)
    \/ \E c \in Clients : Unlock(c)

SpecLock == InitLock /\ [][NextLock]_vars

-----------------------------------------------------------------------------
(* The two classification checks of GetOpenGraphPreview called on their    *)
(* own, over URLs put together from a host prefix, a domain and a path.    *)

HostPrefixes == { <<>>, <<"o", "l", "d", ".">>, <<"b", "o">>, <<"a", "-">> }

Domains ==
    { reddit_com, redd_it,
      <<"R", "e", "d", "d", "i", "t", ".", "c", "o", "m">>,
      <<"r", "e", "d", "d", "i", "t", ".", "c", "o">>,
      <<"r", "e", "d", "d", ".", "i">>,
      <<"X", ".", "c", "o", "m">>,
      <<"x", ".", "c", "o">>,
      <<"a", ".", "i", "o">> }
    \cup {blockedDomains[k] : k \in 1..Len(blockedDomains)}

Paths ==
    { <<>>, <<"/", "a">>,
      <<"/", "r", "e", "d", "d", ".", "i", "t">>,
      <<"/", "?", "u", "=", "r", "e", "d", "d", "i", "t", ".", "c", "o", "m">>,
      <<"/", "?", "u", "=", "x", ".", "c", "o", "m">>,
      <<"/", "t", "w", "i", "t", "t", "e", "r", ".", "c", "o", "m", "/", "a">> }

ClassifyURLs ==
    {<<"h", ":", "/", "/">> \o pre \o dom \o path :
        pre \in HostPrefixes, dom \in Domains, path \in Paths}

CallIsRedditURL ==
    /\ fn.op = "none"
    /\ fn' = [op |-> "isRedditURL", arg |-> fn.arg, out |-> isRedditURL(fn.arg)]
    /\ UNCHANGED <<now, tz, env, rows, coordVars, ret, mu, schema, db>>

CallIsBlockedURL ==
    /\ fn.op = "none"
    /\ fn' = [op |-> "isBlockedURL", arg |-> fn.arg, out |-> isBlockedURL(fn.arg)]
    /\ UNCHANGED <<now, tz, env, rows, coordVars, ret, mu, schema, db>>

InitClassify ==
    /\ now = 0
    /\ tz = 0
    /\ env = "any"
    /\ rows = {}
    /\ urls = <<>>
    /\ task = <<>>
    /\ semaphore = 0
    /\ results = <<>>
    /\ closed = FALSE
    /\ wg = 0
    /\ data = <<>>
    /\ phase = "returned"
    /\ batches = MaxBatches
    /\ saved = NoPut
    /\ lastFail = NoFail
    /\ ret = NoCall
    /\ mu = NoLock
    /\ schema = Columns
    /\ db = "ready"
    /\ fn \in {FnArg(u) : u \in ClassifyURLs}

NextClassify ==
    \/ CallIsRedditURL
    \/ CallIsBlockedURL

SpecClassify == InitClassify /\ [][NextClassify]_vars

-----------------------------------------------------------------------------
(* parseOpenGraphTags called on its own, over documents of up to MaxNodes  *)
(* nodes and over pages that carry the four og: properties.                *)

\* The nodes documents are made of.  The paragraphs have trimmed texts of
\* 20, 21 and 22 characters.
Nodes ==
    { Meta("property", "og:title", <<"A">>),
      Meta("property", "og:title", <<>>),
      Meta("name", "twitter:title", <<"X">>),
      Elem("title", << <<Space, "T", Space>> >>),
      Elem("title", <<>>),
      Meta("property", "og:description", <<"D">>),
      Meta("property", "og:description", <<>>),
      Meta("name", "description", <<"N">>),
      Meta("name", "twitter:description", <<>>),
      Elem("p", << Rep("u", 20) >>),
      Elem("p", << <<Space>> \o Rep("v", 21) \o <<Space>> >>),
      Elem("p", << Rep("w", 11), Rep("w", 11) >>),
      Meta("property", "og:image", <<"I">>),
      Meta("name", "twitter:image", <<"J">>),
      Meta("property", "og:site_name", <<"S">>),
      Elem("h1", << <<"H">> >>) }

\* Pages with og:title, og:description, og:image and og:site_name.
OgHeads ==
    { << Meta("property", "og:title", <<"B">>),
         Meta("property", "og:description", <<"E">>),
         Meta("property", "og:image", <<"K">>),
         Meta("property", "og:site_name", <<"Z">>) >>,
      << Meta("property", "og:site_name", <<"Z">>),
         Meta("property", "og:image", <<"K">>),
         Elem("h1", << <<"H">> >>),
         Meta("property", "og:description", <<"E">>),
         Meta("property", "og:title", <<"B">>) >> }

DocsUpTo(n) == UNION {[1..k -> Nodes] : k \in 0..n}

ParseDocs ==
    DocsUpTo(MaxNodes)
    \cup {pre \o head \o post : pre \in DocsUpTo(1), head \in OgHeads, post \in DocsUpTo(1)}

\* parseOpenGraphTags is entered: og := &OpenGraphData{}, the walk starts at
\* the first node.
StartParse ==
    /\ fn.op = "none"
    /\ fn' = [op |-> "extractMeta", arg |-> fn.arg,
              out |-> [og |-> EmptyOG, at |-> 1]]
    /\ UNCHANGED <<now, tz, env, rows, coordVars, ret, mu, schema, db>>

\* The walk visits its next node.
Visit ==
    /\ fn.op = "extractMeta"
    /\ fn.out.at <= Len(fn.arg)
    /\ fn' = [fn EXCEPT !.out = [og |-> extractMetaAt(fn.arg[fn.out.at], fn.out.og),
                                 at |-> fn.out.at + 1]]
    /\ UNCHANGED <<now, tz, env, rows, coordVars, ret, mu, schema, db>>

\* The walk is over: applyFallbacks, and parseOpenGraphTags returns og.
EndParse ==
    /\ fn.op = "extractMeta"
    /\ fn.out.at > Len(fn.arg)
    /\ fn' = [op |-> "parseOpenGraphTags", arg |-> fn.arg,
              out |-> applyFallbacks(fn.out.og, fn.arg)]
    /\ UNCHANGED <<now, tz, env, rows, coordVars, ret, mu, schema, db>>

InitParse ==
    /\ now = 0
    /\ tz = 0
    /\ env = "any"
    /\ rows = {}
    /\ urls = <<>>
    /\ task = <<>>
    /\ semaphore = 0
    /\ results = <<>>
    /\ closed = FALSE
    /\ wg = 0
    /\ data = <<>>
    /\ phase = "returned"
    /\ batches = MaxBatches
    /\ saved = NoPut
    /\ lastFail = NoFail
    /\ ret = NoCall
    /\ mu = NoLock
    /\ schema = Columns
    /\ db = "ready"
    /\ fn \in {FnArg(doc) : doc \in ParseDocs}

NextParse ==
    \/ StartParse
    \/ Visit
    \/ EndParse

SpecParse == InitParse /\ [][NextParse]_vars

-----------------------------------------------------------------------------
(* The fetcher under every kind of response: one call of                   *)
(* FetchConcurrentOpenGraph on one URL, whose GET is answered with any of  *)
(* the Content-Types and bodies below.  fn records the call of             *)
(* FetchOpenGraphData: its URL and the response, and what it returned.     *)

ContentTypes ==
    { text_html,
      <<"t", "e", "x", "t", "/", "h", "t", "m", "l", ";", " ", "c", "h", "a", "r", "s", "e", "t", "=", "u", "t", "f", "-", "8">>,
      <<"a", "p", "p", "l", "i", "c", "a", "t", "i", "o", "n", "/", "x", "h", "t", "m", "l", "+", "x", "m", "l">>,
      <<"T", "E", "X", "T", "/", "H", "T", "M", "L">>,
      <<"t", "e", "x", "t", "/", "p", "l", "a", "i", "n">>,
      <<"i", "m", "a", "g", "e", "/", "p", "n", "g">>,
      <<"a", "p", "p", "l", "i", "c", "a", "t", "i", "o", "n", "/", "j", "s", "o", "n">>,
      <<>> }

\* Bodies below, at and above maxBodySize, with elements before and after
\* the limit, and bodies whose og:image is no absolute URL.
FetchBodies ==
    { <<>>,
      PageBodies[1],
      << Seg(40, << Meta("property", "og:title", <<"n">>) >>),
         Seg(60, << Elem("p", << Rep("v", 21) >>) >>) >>,
      << Seg(40, << Meta("property", "og:title", <<"e">>) >>),
         Seg(maxBodySize - 80, <<>>),
         Seg(40, << Meta("property", "og:description", <<"d">>) >>) >>,
      << Seg(40, << Meta("property", "og:title", <<"o">>) >>),
         Seg(maxBodySize - 79, <<>>),
         Seg(40, << Meta("property", "og:description", <<"d">>) >>) >>,
      << Seg(40, << Meta("property", "og:site_name", <<"s">>) >>),
         Seg(40, << Meta("name", "twitter:title", <<"b">>) >>),
         Seg(3 * maxBodySize, <<>>),
         Seg(40, << Meta("property", "og:title", <<"l">>) >>) >>,
      << Seg(2 * maxBodySize, <<>>),
         Seg(40, << Meta("property", "og:title", <<"l">>) >>) >>,
      << Seg(40, << Meta("property", "og:title", <<"g">>) >>),
         Seg(40, << Meta("property", "og:image", <<"I">>) >>) >>,
      << Seg(40, << Meta("property", "og:image", <<"/", "a", ".", "p", "n", "g">>) >>),
         Seg(40, << Meta("name", "twitter:image",
                         <<"h", ":", "/", "/", "i", ".", "i", "o", "/", "2">>) >>) >> }

FetchResponses ==
    {Response(FALSE, 200, c, FALSE, b) : c \in ContentTypes, b \in FetchBodies}
    \cup {Response(FALSE, 200, text_html, TRUE, PageBodies[1]),
          Response(FALSE, 404, text_html, FALSE, PageBodies[1]),
          Response(FALSE, 404, <<"i", "m", "a", "g", "e", "/", "p", "n", "g">>, FALSE, PageBodies[1]),
          Response(TRUE, 0, <<>>, FALSE, <<>>)}

\* The GET of goroutine i is answered with resp.
Fetched(i, resp) ==
    /\ Arrive(i, resp)
    /\ fn' = [op |-> "FetchOpenGraphData", arg |-> <<urls[i], resp>>,
              out |-> FetchOpenGraphData(urls[i], resp)]

InitFetch ==
    /\ now = 0
    /\ tz = 0
    /\ env = "any"
    /\ rows = {}
    /\ urls = <<>>
    /\ task = <<>>
    /\ semaphore = 0
    /\ results = <<>>
    /\ closed = FALSE
    /\ wg = 0
    /\ data = <<>>
    /\ phase = "idle"
    /\ batches = MaxBatches - 1
    /\ saved = NoPut
    /\ lastFail = NoFail
    /\ ret = NoCall
    /\ mu = NoLock
    /\ schema = Columns
    /\ db = "ready"
    /\ fn = NoFn

NextFetch ==
    \/ \E u \in {UrlA, UrlB} : StartBatch(<<u>>)
    \/ \E i \in Tasks : Acquire(i)
    \/ \E i \in Tasks : Preview(i)
    \/ \E i \in Tasks : \E resp \in FetchResponses : Fetched(i, resp)
    \/ \E i \in Tasks : Save(i)
    \/ \E i \in Tasks : Finish(i)
    \/ CloseResults
    \/ Collect
    \/ Return

SpecFetch == InitFetch /\ [][NextFetch]_vars

-----------------------------------------------------------------------------
(* Startup: InitOpenGraphDB on a database file that does not exist yet, on *)
(* one left by an earlier version of the program, whose opengraph_cache    *)
(* has no version column, and on one of the current version.  db is at     *)
(*   "closed"   before the call                                            *)
(*   "opened"   sql.Open and Ping done                                     *)
(*   "schema"   createSchema done                                          *)
(*   "ready"    runMigrations done, the handle returned                    *)
(*   "failed"   a step failed: db.Close(), nil returned                    *)
(***************************************************************************)

LegacyColumns ==
    <<"url", "title", "description", "image", "site_name", "fetched_at",
      "expires_at">>

\* A row of a table without the version column.
LegacyRowOf(og) ==
    [url |-> og.URL, title |-> og.Title, description |-> og.Description,
     image |-> og.Image, site_name |-> og.SiteName,
     fetched_at |-> FormatTime(og.FetchedAt),
     expires_at |-> FormatTime(og.ExpiresAt)]

\* A row as it reads once the column has been added: version is the default.
AddVersion(r) ==
    [url |-> r.url, title |-> r.title, description |-> r.description,
     image |-> r.image, site_name |-> r.site_name,
     fetched_at |-> r.fetched_at, expires_at |-> r.expires_at, version |-> 1]

\* A record still valid, fetched 4 hours before the start.
RecentRecord ==
    Record(UrlA, 2, [t |-> 0 - TickHours, loc |-> 0],
           [t |-> OpenGraphCacheHours - TickHours, loc |-> 0])

\* The stores InitOpenGraphDB can find: <<columns, rows>>.
Stores ==
    { <<<<>>, {}>>,
      <<LegacyColumns, {}>>,
      <<LegacyColumns, {LegacyRowOf(OldRecord)}>>,
      <<LegacyColumns, {LegacyRowOf(OldRecord), LegacyRowOf(RecentRecord)}>>,
      <<Columns, {}>>,
      <<Columns, {RowOf(OldRecord), RowOf(RecentRecord)}>> }

\* CREATE TABLE IF NOT EXISTS: the columns of the table after createSchema.
createSchema == IF schema = <<>> THEN Columns ELSE schema

\* SELECT COUNT(*) FROM pragma_table_info(...) WHERE name = 'version'
columnExists == \E k \in 1..Len(schema) : schema[k] = "version"

\* A migration that rebuilds the table when the column is missing.
runMigrations_Rebuild ==
    IF columnExists THEN <<schema, rows>> ELSE <<Columns, {}>>

\* runMigrations: ALTER TABLE ... ADD COLUMN version INTEGER DEFAULT 1 when
\* the column is missing; <<columns, rows>> of the table afterwards.
runMigrations ==
    IF columnExists THEN <<schema, rows>>
    ELSE <<Append(schema, "version"), {AddVersion(r) : r \in rows}>>

\* sql.Open and db.Ping
OpenDB ==
    /\ db = "closed"
    /\ \E err \in StorageErrs(env) : db' = IF err THEN "failed" ELSE "opened"
    /\ UNCHANGED <<now, tz, env, rows, coordVars, ret, mu, schema, fn>>

CreateSchema ==
    /\ db = "opened"
    /\ \E err \in StorageErrs(env) :
         IF err THEN db' = "failed" /\ schema' = schema
         ELSE db' = "schema" /\ schema' = createSchema
    /\ UNCHANGED <<now, tz, env, rows, coordVars, ret, mu, fn>>

RunMigrations ==
    /\ db = "schema"
    /\ \E err \in StorageErrs(env) :
         IF err THEN db' = "failed" /\ UNCHANGED <<schema, rows>>
         ELSE /\ db' = "ready"
              /\ schema' = runMigrations[1]
              /\ rows' = runMigrations[2]
    /\ UNCHANGED <<now, tz, env, coordVars, ret, mu, fn>>

InitStartup ==
    /\ now = 0
    /\ tz = 0
    /\ env = "any"
    /\ \E st \in Stores : schema = st[1] /\ rows = st[2]
    /\ urls = <<>>
    /\ task = <<>>
    /\ semaphore = 0
    /\ results = <<>>
    /\ closed = FALSE
    /\ wg = 0
    /\ data = <<>>
    /\ phase = "returned"
    /\ batches = MaxBatches
    /\ saved = [u \in URLs |->
                   IF \E r \in rows : r.url = u
                   THEN <<ScanRow(CHOOSE r \in rows : r.url = u)>> ELSE <<>>]
    /\ lastFail = NoFail
    /\ ret = NoCall
    /\ mu = NoLock
    /\ db = "closed"
    /\ fn = NoFn

\* The requests are made through the handle InitOpenGraphDB returns.
NextStartup ==
    \/ OpenDB
    \/ CreateSchema
    \/ RunMigrations
    \/ db = "ready" /\ \E u \in {UrlA, UrlB} : ApiGet(u)
    \/ db = "ready" /\ \E og \in PutRecords : ApiPut(og)
    \/ db = "ready" /\ Sweep

SpecStartup == InitStartup /\ [][NextStartup]_vars

-----------------------------------------------------------------------------
(* cleanupOpenGraphData called on its own, and again on what it returned.  *)
(* A string is the sequence of its bytes, as Go's len and s[:n] see it; a   *)
(* character outside ASCII takes several of them (the two bytes of "é"     *)
(* below).  The white space of the inputs is the space.                     *)

LeadByte == "\\xC3"
ContByte == "\\xA9"

\* n times the character "é"
Accented(n) == [i \in 1..(2 * n) |-> IF i % 2 = 1 THEN LeadByte ELSE ContByte]

\* utf8.RuneCountInString of well-formed text: the bytes that continue no
\* character.
RuneCount(s) == Cardinality({i \in 1..Len(s) : s[i] # ContByte})

\* strings.ReplaceAll(s, "\x00", "")
NotNul(b) == b # Nul

RemoveNul(s) == SelectSeq(s, NotNul)

\* cleanupOpenGraphData of the fetcher that also reads gzip bodies (the
\* second copy of the function in the sources): as cleanupOpenGraphData,
\* then the null bytes are taken out of title, description and site name.
cleanupOpenGraphData2(og) ==
    LET c == cleanupOpenGraphData(og)
    IN  [c EXCEPT !.Title = RemoveNul(c.Title),
                  !.Description = RemoveNul(c.Description),
                  !.SiteName = RemoveNul(c.SiteName)]

CleanupTitles ==
    { <<>>, <<"a">>, <<Space, "a", Space>>,
      Rep("a", 200), Rep("a", 201), <<Space>> \o Rep("a", 200),
      Rep("a", 195) \o <<Space, Space>> \o Rep("b", 10),
      <<Nul, Space, "a">>, <<"a", Nul, "b">>, <<"a", Space, Nul>>, <<"a", Bel, "b">>,
      Accented(101) }

CleanupDescriptions ==
    { <<>>, Rep("d", 500), Rep("d", 501), <<Space>> \o Rep("d", 500),
      <<Nul, Space, "d">>, Accented(251) }

CleanupImages ==
    { <<>>, <<"h", ":", "/", "/", "i", ".", "i", "o", "/", "1">>,
      <<"I">>, <<"/", "a", ".", "p", "n", "g">>, <<"h", ":", "a">>,
      <<"h", ":", "/", "/", "i", ".", "i", "o", "/", Nul>>,
      <<"h", ":", "/", "/", "i", ".", "i", "o", "/", "1", Space>> }

CleanupSiteNames == { <<>>, <<"s">>, <<Space, "s", Space>>, <<"s", Space, Nul>> }

CleanupRecords ==
    { [EmptyOG EXCEPT !.URL = UrlA, !.Title = t, !.Description = d,
                      !.Image = g, !.SiteName = s] :
        t \in CleanupTitles, d \in CleanupDescriptions, g \in CleanupImages,
        s \in CleanupSiteNames }

\* ogf.cleanupOpenGraphData(og)
CallCleanup ==
    /\ fn.op = "none"
    /\ fn' = [op |-> "cleanupOpenGraphData", arg |-> <<fn.arg>>,
              out |-> cleanupOpenGraphData(fn.arg)]
    /\ UNCHANGED <<now, tz, env, rows, coordVars, ret, mu, schema, db>>

\* The same call on the second copy of the function.
CallCleanup2 ==
    /\ fn.op = "none"
    /\ fn' = [op |-> "cleanupOpenGraphData2", arg |-> <<fn.arg>>,
              out |-> cleanupOpenGraphData2(fn.arg)]
    /\ UNCHANGED <<now, tz, env, rows, coordVars, ret, mu, schema, db>>

\* The function is called on the record it returned; arg keeps the first
\* argument and the first result.
CallCleanupAgain ==
    /\ fn.op \in {"cleanupOpenGraphData", "cleanupOpenGraphData2"}
    /\ Len(fn.arg) = 1
    /\ fn' = [fn EXCEPT !.arg = <<fn.arg[1], fn.out>>,
                        !.out = IF fn.op = "cleanupOpenGraphData"
                                THEN cleanupOpenGraphData(fn.out)
                                ELSE cleanupOpenGraphData2(fn.out)]
    /\ UNCHANGED <<now, tz, env, rows, coordVars, ret, mu, schema, db>>

InitCleanup ==
    /\ now = 0
    /\ tz = 0
    /\ env = "any"
    /\ rows = {}
    /\ urls = <<>>
    /\ task = <<>>
    /\ semaphore = 0
    /\ results = <<>>
    /\ closed = FALSE
    /\ wg = 0
    /\ data = <<>>
    /\ phase = "returned"
    /\ batches = MaxBatches
    /\ saved = NoPut
    /\ lastFail = NoFail
    /\ ret = NoCall
    /\ mu = NoLock
    /\ schema = Columns
    /\ db = "ready"
    /\ fn \in {FnArg(og) : og \in CleanupRecords}

NextCleanup ==
    \/ CallCleanup
    \/ CallCleanup2
    \/ CallCleanupAgain

SpecCleanup == InitCleanup /\ [][NextCleanup]_vars

-----------------------------------------------------------------------------
(* FilterPosts called on its own, over lists of up to MaxPosts posts.  A   *)
(* post is given by the fields the function reads and its title.           *)

Post(title, score, comments) ==
    [Title |-> title, Score |-> score, NumComments |-> comments]

\* A filter that keeps a post only when it is above both thresholds.
FilterPosts_Above(posts, minScore, minComments) ==
    SelectSeq(posts, LAMBDA post : post.Score > minScore /\ post.NumComments > minComments)

\* FilterPosts: the loop over posts appends the posts that pass to filtered.
FilterPosts(posts, minScore, minComments) ==
    LET filtered[k \in 0..Len(posts)] ==
            IF k = 0 THEN <<>>
            ELSE IF posts[k].Score >= minScore /\ posts[k].NumComments >= minComments
                 THEN Append(filtered[k - 1], posts[k])
                 ELSE filtered[k - 1]
    IN  filtered[Len(posts)]

FilterScores == {5, 50, 100}

FilterComments == {2, 10, 50}

\* The posts of the model; the title tells score and comments.
FilterPostSet == {Post(<<s, c>>, s, c) : s \in FilterScores, c \in FilterComments}

\* The thresholds (minScore, minComments).
FilterThresholds == {<<50, 10>>, <<0, 0>>, <<100, 50>>, <<101, 0>>, <<5, 51>>}

FilterInputs ==
    {<<posts, th[1], th[2]>> :
        posts \in UNION {[1..n -> FilterPostSet] : n \in 0..MaxPosts},
        th \in FilterThresholds}

CallFilterPosts ==
    /\ fn.op = "none"
    /\ fn' = [op |-> "FilterPosts", arg |-> fn.arg,
              out |-> FilterPosts(fn.arg[1], fn.arg[2], fn.arg[3])]
    /\ UNCHANGED <<now, tz, env, rows, coordVars, ret, mu, schema, db>>

InitFilter ==
    /\ now = 0
    /\ tz = 0
    /\ env = "any"
    /\ rows = {}
    /\ urls = <<>>
    /\ task = <<>>
    /\ semaphore = 0
    /\ results = <<>>
    /\ closed = FALSE
    /\ wg = 0
    /\ data = <<>>
    /\ phase = "returned"
    /\ batches = MaxBatches
    /\ saved = NoPut
    /\ lastFail = NoFail
    /\ ret = NoCall
    /\ mu = NoLock
    /\ schema = Columns
    /\ db = "ready"
    /\ fn \in {FnArg(x) : x \in FilterInputs}

NextFilter == CallFilterPosts

SpecFilter == InitFilter /\ [][NextFilter]_vars

-----------------------------------------------------------------------------
(* FetchRedditHomepage called on its own.  fn.out holds the loop: pc is    *)
(* "loop" (an attempt is due), "after" (the loop is left) or "returned";   *)
(* attempt is the loop variable, posts and err the variables of the same   *)
(* name, tries what the calls of fetchHomepageWithRateLimit returned so    *)
(* far, and result what FetchRedditHomepage returns.  The waits (the rate  *)
(* limiter, the backoff) take time and change nothing else.                *)

\* const maxRetries = 3 of FetchRedditHomepage
maxRetriesHomepage == 3

\* The answers of the Reddit API: client.Do fails, or a status and a body
\* that decodes into a listing or does not.
ApiResponse(err, status, decodeErr, children) ==
    [err |-> err, status |-> status, decodeErr |-> decodeErr, children |-> children]

ApiResponses ==
    { ApiResponse(TRUE, 0, FALSE, <<>>),
      ApiResponse(FALSE, 429, FALSE, <<>>),
      ApiResponse(FALSE, 500, FALSE, <<>>),
      ApiResponse(FALSE, 200, TRUE, <<>>),
      ApiResponse(FALSE, 200, FALSE, <<>>),
      ApiResponse(FALSE, 200, FALSE, << Post(<<"p", "1">>, 100, 50) >>),
      ApiResponse(FALSE, 200, FALSE,
                  << Post(<<"p", "2">>, 5, 2), Post(<<"p", "1">>, 100, 50) >>) }

\* fetchHomepageWithRateLimit: (nil, err) or (listing.Data.Children, nil).
fetchHomepageWithRateLimit(resp) ==
    IF resp.err THEN [posts |-> <<>>, err |-> "failed to make API request"]
    ELSE IF resp.status # 200
    THEN [posts |-> <<>>, err |-> "Reddit API returned non-OK status"]
    ELSE IF resp.decodeErr
    THEN [posts |-> <<>>, err |-> "failed to decode Reddit API response"]
    ELSE [posts |-> resp.children, err |-> ""]

\* FetchRedditHomepage is entered.
CallFetchRedditHomepage ==
    /\ fn.op = "none"
    /\ fn' = [op |-> "FetchRedditHomepage", arg |-> <<>>,
              out |-> [pc |-> "loop", attempt |-> 0, posts |-> <<>>, err |-> "",
                       tries |-> <<>>, result |-> <<>>]]
    /\ UNCHANGED <<now, tz, env, rows, coordVars, ret, mu, schema, db>>

\* A loop that goes on to the next attempt after a success as well.
HomepageAttempt_NoBreak ==
    /\ fn.op = "FetchRedditHomepage"
    /\ fn.out.pc = "loop"
    /\ \E resp \in ApiResponses :
         LET r == fetchHomepageWithRateLimit(resp)
             last == fn.out.attempt + 1 >= maxRetriesHomepage
         IN  fn' = [fn EXCEPT !.out.posts = r.posts,
                              !.out.err = r.err,
                              !.out.tries = Append(@, r),
                              !.out.attempt = @ + 1,
                              !.out.pc = IF last THEN "after" ELSE "loop"]
    /\ UNCHANGED <<now, tz, env, rows, coordVars, ret, mu, schema, db>>

\* One turn of the loop: the call, then break on success, and else the next
\* value of attempt (by continue or by the end of the body alike).
HomepageAttempt ==
    /\ fn.op = "FetchRedditHomepage"
    /\ fn.out.pc = "loop"
    /\ \E resp \in ApiResponses :
         LET r == fetchHomepageWithRateLimit(resp)
             last == fn.out.attempt + 1 >= maxRetriesHomepage
         IN  fn' = [fn EXCEPT !.out.posts = r.posts,
                              !.out.err = r.err,
                              !.out.tries = Append(@, r),
                              !.out.attempt = IF r.err = "" THEN @ ELSE @ + 1,
                              !.out.pc = IF r.err = "" \/ last THEN "after" ELSE "loop"]
    /\ UNCHANGED <<now, tz, env, rows, coordVars, ret, mu, schema, db>>

\* After the loop: the error if err is set, the posts if not.
HomepageReturn ==
    /\ fn.op = "FetchRedditHomepage"
    /\ fn.out.pc = "after"
    /\ fn' = [fn EXCEPT !.out.pc = "returned",
                        !.out.result =
                           IF fn.out.err # ""
                           THEN [posts |-> <<>>,
                                 err |-> "failed to fetch Reddit homepage after 3 attempts"]
                           ELSE [posts |-> fn.out.posts, err |-> ""]]
    /\ UNCHANGED <<now, tz, env, rows, coordVars, ret, mu, schema, db>>

InitHomepage ==
    /\ now = 0
    /\ tz = 0
    /\ env = "any"
    /\ rows = {}
    /\ urls = <<>>
    /\ task = <<>>
    /\ semaphore = 0
    /\ results = <<>>
    /\ closed = FALSE
    /\ wg = 0
    /\ data = <<>>
    /\ phase = "returned"
    /\ batches = MaxBatches
    /\ saved = NoPut
    /\ lastFail = NoFail
    /\ ret = NoCall
    /\ mu = NoLock
    /\ schema = Columns
    /\ db = "ready"
    /\ fn = NoFn

NextHomepage ==
    \/ CallFetchRedditHomepage
    \/ HomepageAttempt
    \/ HomepageReturn

SpecHomepage == InitHomepage /\ [][NextHomepage]_vars

-----------------------------------------------------------------------------
(* AuthenticateUser: the caller, the goroutine of the callback server, the *)
(* goroutine that waits for the shutdown signal, and the handler of the    *)
(* callback.  fn.out holds                                                  *)
(*   pc       where the caller is: "browser" (OpenBrowser), "recv"          *)
(*            (<-AuthCodeChan), "exchange" (the loop of                     *)
(*            exchangeAuthCodeForTokens), "save" (SaveConfig), "wait"       *)
(*            (ServerWg.Wait()), "returned"                                 *)
(*   result   the error returned ("": nil)                                  *)
(*   ctx      serverCtx: "live" or "cancelled"                              *)
(*   srv      the server: "init", "listening", "failed" (ListenAndServe     *)
(*            returned an error), "closed" (Shutdown was called), "done"    *)
(*            (ListenAndServe has returned and the goroutine has ended)     *)
(*   watcher  the inner goroutine: "waiting" on serverCtx.Done(), "done"    *)
(*   wg       the counter of ServerWg                                       *)
(*   chan     AuthCodeChan: <<>> or the value a handler is sending          *)
(*   called   how many times the browser has requested /callback (at most   *)
(*            MaxCallbacks times: the page may be loaded again)             *)
(*   i, backoff, outcomes   the loop of exchangeAuthCodeForTokens and what  *)
(*            each call of OAuth2Config.Exchange returned                   *)
(*   Token    the global Token (<<>>: nil)                                  *)
(*   saved    whether SaveConfig has written the tokens                     *)

\* const maxRetries = 5 of exchangeAuthCodeForTokens
maxRetriesExchange == 5

\* What OAuth2Config.Exchange returns: a token, a RetrieveError of status
\* 429, or another error.
ExchangeOutcomes == {"ok", "429", "error"}

\* What the request of /callback carries: a code, or an error parameter, a
\* wrong state or no code, for which the handler sends "".
CallbackCodes == {<<"c">>, <<>>}

\* AuthenticateUser up to OpenBrowser: the context, ServerWg.Add(1), the
\* server goroutine started.
CallAuthenticateUser ==
    /\ fn.op = "none"
    /\ fn' = [op |-> "AuthenticateUser", arg |-> <<>>,
              out |-> [pc |-> "browser", result |-> "", ctx |-> "live",
                       srv |-> "init", watcher |-> "waiting", wg |-> 1,
                       chan |-> <<>>, called |-> 0, code |-> <<>>,
                       i |-> 0, backoff |-> 1, outcomes |-> <<>>,
                       Token |-> <<>>, saved |-> FALSE]]
    /\ UNCHANGED <<now, tz, env, rows, coordVars, ret, mu, schema, db>>

\* What a return of AuthenticateUser does to the state: the result, and the
\* deferred serverCancel().
Returned(out, err) == [out EXCEPT !.pc = "returned", !.result = err, !.ctx = "cancelled"]

\* server.ListenAndServe() starts to listen, or returns an error at once
\* (the port is taken); in that case the goroutine ends: ServerWg.Done().
ServerListen ==
    /\ fn.op = "AuthenticateUser"
    /\ fn.out.srv = "init"
    /\ \E ok \in BOOLEAN :
         fn' = IF ok THEN [fn EXCEPT !.out.srv = "listening"]
               ELSE [fn EXCEPT !.out.srv = "failed", !.out.wg = @ - 1]
    /\ UNCHANGED <<now, tz, env, rows, coordVars, ret, mu, schema, db>>

\* server.ListenAndServe() returns an error other than ErrServerClosed while
\* it serves (Accept fails for good): the error is logged and the goroutine
\* ends: ServerWg.Done().  Nothing obliges this to happen.
ServerFail ==
    /\ fn.op = "AuthenticateUser"
    /\ fn.out.srv = "listening"
    /\ fn' = [fn EXCEPT !.out.srv = "failed", !.out.wg = @ - 1]
    /\ UNCHANGED <<now, tz, env, rows, coordVars, ret, mu, schema, db>>

\* OpenBrowser(authURL): an error is returned to the caller.
OpenBrowser ==
    /\ fn.op = "AuthenticateUser"
    /\ fn.out.pc = "browser"
    /\ \E ok \in BOOLEAN :
         fn' = IF ok THEN [fn EXCEPT !.out.pc = "recv"]
               ELSE [fn EXCEPT !.out = Returned(fn.out, "failed to open browser")]
    /\ UNCHANGED <<now, tz, env, rows, coordVars, ret, mu, schema, db>>

\* OAuth2CallbackHandler: the browser requests /callback and the handler
\* sends the code, or "", on AuthCodeChan, where it blocks until the caller
\* receives.
OAuth2CallbackHandler ==
    /\ fn.op = "AuthenticateUser"
    /\ fn.out.srv = "listening"
    /\ fn.out.called < MaxCallbacks
    /\ fn.out.chan = <<>>
    /\ \E code \in CallbackCodes :
         fn' = [fn EXCEPT !.out.called = @ + 1, !.out.chan = <<code>>]
    /\ UNCHANGED <<now, tz, env, rows, coordVars, ret, mu, schema, db>>

\* authCode := <-AuthCodeChan, and the check for "".
ReceiveCode ==
    /\ fn.op = "AuthenticateUser"
    /\ fn.out.pc = "recv"
    /\ fn.out.chan # <<>>
    /\ fn' = IF fn.out.chan[1] = <<>>
             THEN [fn EXCEPT !.out = Returned([fn.out EXCEPT !.chan = <<>>],
                                              "authentication failed")]
             ELSE [fn EXCEPT !.out.pc = "exchange", !.out.chan = <<>>,
                             !.out.code = fn.out.chan[1]]
    /\ UNCHANGED <<now, tz, env, rows, coordVars, ret, mu, schema, db>>

\* A loop that tries again after any error.
ExchangeAttempt_RetryAnyError ==
    /\ fn.op = "AuthenticateUser"
    /\ fn.out.pc = "exchange"
    /\ \E o \in ExchangeOutcomes :
         LET out == [fn.out EXCEPT !.outcomes = Append(@, o)]
         IN  fn' = IF o = "ok"
                   THEN [fn EXCEPT !.out = [out EXCEPT !.Token = <<"token">>, !.pc = "save"]]
                   ELSE IF fn.out.i + 1 < maxRetriesExchange
                   THEN [fn EXCEPT !.out = [out EXCEPT !.i = @ + 1, !.backoff = 2 * @]]
                   ELSE [fn EXCEPT !.out = Returned(out, "failed to exchange authorization code")]
    /\ UNCHANGED <<now, tz, env, rows, coordVars, ret, mu, schema, db>>

\* One turn of the loop of exchangeAuthCodeForTokens, and what
\* AuthenticateUser does with its result.
ExchangeAttempt ==
    /\ fn.op = "AuthenticateUser"
    /\ fn.out.pc = "exchange"
    /\ \E o \in ExchangeOutcomes :
         LET out == [fn.out EXCEPT !.outcomes = Append(@, o)]
         IN  fn' = IF o = "ok"
                   THEN [fn EXCEPT !.out = [out EXCEPT !.Token = <<"token">>, !.pc = "save"]]
                   ELSE IF o = "429" /\ fn.out.i + 1 < maxRetriesExchange
                   THEN [fn EXCEPT !.out = [out EXCEPT !.i = @ + 1, !.backoff = 2 * @]]
                   ELSE [fn EXCEPT !.out = Returned(out, "failed to exchange authorization code")]
    /\ UNCHANGED <<now, tz, env, rows, coordVars, ret, mu, schema, db>>

\* GlobalConfig takes the tokens; SaveConfig().
SaveConfig ==
    /\ fn.op = "AuthenticateUser"
    /\ fn.out.pc = "save"
    /\ \E ok \in BOOLEAN :
         fn' = IF ok THEN [fn EXCEPT !.out.pc = "wait", !.out.saved = TRUE]
               ELSE [fn EXCEPT !.out = Returned(fn.out, "failed to save config")]
    /\ UNCHANGED <<now, tz, env, rows, coordVars, ret, mu, schema, db>>

\* ServerWg.Wait() returns when the counter is zero; return nil.
WaitServer ==
    /\ fn.op = "AuthenticateUser"
    /\ fn.out.pc = "wait"
    /\ fn.out.wg = 0
    /\ fn' = [fn EXCEPT !.out = Returned(fn.out, "")]
    /\ UNCHANGED <<now, tz, env, rows, coordVars, ret, mu, schema, db>>

\* The inner goroutine: <-serverCtx.Done(), then server.Shutdown(ctx).
ShutdownServer ==
    /\ fn.op = "AuthenticateUser"
    /\ fn.out.watcher = "waiting"
    /\ fn.out.ctx = "cancelled"
    /\ fn.out.srv # "init"
    /\ fn' = [fn EXCEPT !.out.watcher = "done",
                        !.out.srv = IF @ = "listening" THEN "closed" ELSE @]
    /\ UNCHANGED <<now, tz, env, rows, coordVars, ret, mu, schema, db>>

\* ListenAndServe returns http.ErrServerClosed; the goroutine ends:
\* ServerWg.Done().
ServerDone ==
    /\ fn.op = "AuthenticateUser"
    /\ fn.out.srv = "closed"
    /\ fn' = [fn EXCEPT !.out.srv = "done", !.out.wg = @ - 1]
    /\ UNCHANGED <<now, tz, env, rows, coordVars, ret, mu, schema, db>>

InitAuth ==
    /\ now = 0
    /\ tz = 0
    /\ env = "any"
    /\ rows = {}
    /\ urls = <<>>
    /\ task = <<>>
    /\ semaphore = 0
    /\ results = <<>>
    /\ closed = FALSE
    /\ wg = 0
    /\ data = <<>>
    /\ phase = "returned"
    /\ batches = MaxBatches
    /\ saved = NoPut
    /\ lastFail = NoFail
    /\ ret = NoCall
    /\ mu = NoLock
    /\ schema = Columns
    /\ db = "ready"
    /\ fn = NoFn

NextAuth ==
    \/ CallAuthenticateUser
    \/ ServerListen
    \/ ServerFail
    \/ OpenBrowser
    \/ OAuth2CallbackHandler
    \/ ReceiveCode
    \/ ExchangeAttempt
    \/ SaveConfig
    \/ WaitServer
    \/ ShutdownServer
    \/ ServerDone

\* Every goroutine that can take a step takes it in the end; whether and
\* when the browser requests /callback is up to the user.
FairnessAuth ==
    /\ WF_vars(ServerListen)
    /\ WF_vars(OpenBrowser)
    /\ WF_vars(ReceiveCode)
    /\ WF_vars(ExchangeAttempt)
    /\ WF_vars(SaveConfig)
    /\ WF_vars(WaitServer)
    /\ WF_vars(ShutdownServer)
    /\ WF_vars(ServerDone)

SpecAuth == InitAuth /\ [][NextAuth]_vars /\ FairnessAuth

-----------------------------------------------------------------------------
(* Properties *)

Ineligible(url) == isRedditURL(url) \/ isBlockedURL(url)

\* The goroutines that are inside GetOpenGraphPreview.
InPreview == {i \in Tasks : task[i].pc \in {"preview", "fetch", "save"}}

InFlight == {i \in Tasks : task[i].pc = "fetch"}

\* C1: during FetchConcurrentOpenGraph at most 5 goroutines are inside
\* GetOpenGraphPreview at any moment, so at most 5 GETs are in flight.
C1_AtMostFiveInPreview ==
    Cardinality(InPreview) <= 5 /\ Cardinality(InFlight) <= 5

C1_Witness ==
    Cardinality(InFlight) = 5 /\ \E i \in Tasks : task[i].pc = "wait"

\* C2: GetCachedOpenGraph never returns a record whose expiresAt <= now (the
\* instant of the call), the boundary expiresAt = now included.
C2_GetNeverReturnsExpired ==
    (ret.op = "get" /\ ret.og # <<>>) => ret.og[1].ExpiresAt.t > ret.at

\* A resolve of task i passes its cache lookup in this step.
LooksUp(i) == task[i].pc = "preview" /\ task'[i].pc # "preview"

\* C3: once a resolve of u has fetched at t and its cache write succeeded,
\* every later resolve of u before t + 24h (whose lookup does not fail)
\* returns the cached record and issues no HTTP request.
C3_CachedFor24Hours ==
    [][\A i \in Tasks :
         ( /\ LooksUp(i)
           /\ task'[i].lookup # "error"
           /\ saved[urls[i]] # <<>>
           /\ now < saved[urls[i]][1].FetchedAt.t + 24 )
         => /\ task'[i].lookup = "hit"
            /\ task'[i].og = saved[urls[i]]
            /\ task'[i].gets = 0]_vars

\* C4: a resolve of a Reddit or blocklisted URL returns nil at once: no GET,
\* no cache read, no cache write.
C4_IneligibleSkipped ==
    /\ \A i \in Tasks :
         Ineligible(urls[i]) =>
            /\ task[i].og = <<>>
            /\ task[i].gets = 0
            /\ task[i].lookup = "none"
            /\ task[i].pc \notin {"fetch", "save"}
    /\ \A r \in rows : ~Ineligible(r.url)

C4_Witness ==
    /\ phase = "returned"
    /\ rows # {}
    /\ \E i \in Tasks : isBlockedURL(urls[i]) /\ task[i].pc = "done"

\* C5: the map FetchConcurrentOpenGraph returns has an entry exactly for the
\* URLs a resolve returned a record for, and no entry holds nil.
C5_MapHoldsExactlyResolved ==
    (phase = "returned" /\ Len(urls) > 0) =>
       /\ DOMAIN data = {urls[i] : i \in {j \in Tasks : task[j].og # <<>>}}
       /\ \A u \in DOMAIN data : data[u] # <<>>

C5_Witness ==
    /\ phase = "returned"
    /\ \E i \in Tasks :
         task[i].gets = 1 /\ task[i].og = <<>> /\ urls[i] \notin DOMAIN data
    /\ \E j \in Tasks : urls[j] \in DOMAIN data

\* C6: a skip or a failure for one URL of a batch does not stop the others:
\* when the call returns every goroutine has finished and every URL whose
\* lookup or fetch gave a record is in the map.
C6_OthersUnaffected ==
    phase = "returned" =>
       \A i \in Tasks :
          /\ urls[i] # <<>> => task[i].pc = "done"
          /\ task[i].og # <<>> =>
                urls[i] \in DOMAIN data /\ data[urls[i]] # <<>>

C6_Witness ==
    /\ phase = "returned"
    /\ \E i \in Tasks : isRedditURL(urls[i])
    /\ \E j \in Tasks : task[j].gets = 1 /\ urls[j] \in DOMAIN data

\* The resolve of task i ends in a fetch or parse failure in this step.
EndsInFailure(i) ==
    /\ task[i].pc \in {"preview", "fetch"}
    /\ task'[i].pc = "send"
    /\ task'[i].og = <<>>
    /\ task'[i].lookup # "none"

\* The lookup of a resolve of a URL whose last resolve failed, no put since.
LooksUpAfterFailure(i) ==
    LooksUp(i) /\ lastFail[urls[i]] # "none" /\ isValidURL(urls[i])

\* C7 as claimed: a resolve that ends in a failure leaves the store as it
\* was, and the next resolve of that URL issues a GET again.
C7_FailureThenNetworkAgain ==
    [][ /\ \A i \in Tasks : EndsInFailure(i) => rows' = rows
        /\ \A i \in Tasks : LooksUpAfterFailure(i) => task'[i].gets = 1 ]_vars

\* C7 as amended: a resolve that ends in a failure leaves the store as it
\* was, no row ever holds anything but a page that was fetched, and the next
\* resolve of that URL issues a GET again unless it returns the record of the
\* last put.
C7_FailureNeverCached ==
    /\ [](\A r \in rows : \E p \in DOMAIN Pages :
             /\ r.title = Pages[p].Title
             /\ r.description = Pages[p].Description
             /\ r.image = Pages[p].Image
             /\ r.site_name = Pages[p].SiteName)
    /\ [][ /\ \A i \in Tasks : EndsInFailure(i) => rows' = rows
           /\ \A i \in Tasks :
                LooksUpAfterFailure(i) =>
                   \/ task'[i].gets = 1
                   \/ /\ task'[i].lookup = "hit"
                      /\ task'[i].og = saved[urls[i]] ]_vars

C7_Witness ==
    \E i, j \in Tasks :
        /\ i # j /\ urls[i] = urls[j]
        /\ task[i].pc = "done" /\ task[i].og = <<>> /\ task[i].gets = 1
        /\ task[j].pc = "fetch"
        /\ lastFail[urls[i]] = "miss"
        /\ rows = {}

\* C8: a fetched record is stamped fetchedAt = now and expiresAt = now + 24h
\* from the same instant, and every record of the fetcher and every row of
\* the store has expiresAt = fetchedAt + 24h > fetchedAt.
C8_ExpiryIsFetchedPlus24 ==
    /\ [](/\ \A i \in Tasks :
               task[i].og # <<>> =>
                  /\ task[i].og[1].ExpiresAt.t = task[i].og[1].FetchedAt.t + 24
                  /\ task[i].og[1].ExpiresAt.t > task[i].og[1].FetchedAt.t
          /\ \A r \in rows :
               /\ ParseTime(r.expires_at).t = ParseTime(r.fetched_at).t + 24
               /\ ParseTime(r.expires_at).t > ParseTime(r.fetched_at).t)
    /\ [][\A i \in Tasks :
            (task[i].pc = "fetch" /\ task'[i].pc = "save") =>
               /\ task'[i].og[1].FetchedAt.t = now
               /\ task'[i].og[1].ExpiresAt.t = now + 24]_vars

C8_Witness ==
    /\ rows # {}
    /\ \E i \in Tasks :
         task[i].pc = "done" /\ task[i].gets = 1 /\ task[i].og # <<>>

\* This step is a call of SaveCachedOpenGraph that succeeded.
PutStep == ret' # ret /\ ret'.op = "put" /\ ~ret'.err

\* C9: after SaveCachedOpenGraph(r) the store holds exactly one row for
\* r.url, equal to r in every field, and the rows of the other URLs are as
\* they were.
C9_PutIsWholesaleUpsert ==
    [][PutStep =>
         LET r == ret'.og[1]
             mine == {x \in rows' : x.url = r.URL}
         IN  /\ Cardinality(mine) = 1
             /\ \A x \in mine : ScanRow(x) = r
             /\ {x \in rows' : x.url # r.URL} = {x \in rows : x.url # r.URL}]_vars

C9_Witness ==
    /\ ret.op = "put" /\ ~ret.err
    /\ ret.og[1].URL = UrlA /\ ret.og[1].Title = <<"t", "2">>
    /\ ret.og[1].FetchedAt.t > 0
    /\ \E x \in rows : x.url = UrlA /\ x.title = <<"t", "2">>
    /\ \E y \in rows : y.url = UrlB

\* This step is a call of GetCachedOpenGraph that raised no error.
GetStep == ret' # ret /\ ret'.op = "get" /\ ~ret'.err

\* C10: GetCachedOpenGraph returns the record last saved for the URL, equal
\* in every field, when its expiresAt is in the future, and nothing when
\* its expiresAt is in the past.
C10_RoundTrip ==
    [][(GetStep /\ saved[ret'.url] # <<>>) =>
         LET w == saved[ret'.url][1]
         IN  /\ w.ExpiresAt.t > now => ret'.og = <<w>>
             /\ w.ExpiresAt.t < now => ret'.og = <<>>]_vars

\* C11: when resolves of the same URL race and both fetch, the row of that
\* URL is, in every field, the record of the put executed last, never a
\* mixture of two records.
C11_LastPutWins ==
    \A u \in URLs :
        LET mine == {r \in rows : r.url = u}
        IN  IF saved[u] = <<>>
            THEN mine = {}
            ELSE /\ mine = {RowOf(saved[u][1])}
                 /\ \A r \in mine : ScanRow(r) = saved[u][1]

C11_Witness ==
    \E i, j \in Tasks :
        /\ i # j /\ urls[i] = urls[j]
        /\ task[i].lookup = "miss" /\ task[j].lookup = "miss"
        /\ task[i].gets = 1 /\ task[j].gets = 1
        /\ task[i].put = "ok" /\ task[j].put = "ok"
        /\ task[i].og # task[j].og
        /\ saved[urls[i]] = task[j].og
        /\ \E r \in rows : r.url = urls[i] /\ <<ScanRow(r)>> = task[j].og

SweepStep == ret'.op = "sweep" /\ ~ret'.err /\ (ret' # ret \/ rows' # rows)

\* C13: CleanupExpiredEntries removes exactly the rows with expiresAt <= now:
\* the rows left are those with expiresAt > now, unchanged.
C13_SweepRemovesExactlyExpired ==
    [][SweepStep =>
         rows' = {r \in rows : ParseTime(r.expires_at).t > now}]_vars

\* C14: CleanupExpiredEntries hands its caller the number of rows it removed.
C14_SweepReturnsCount ==
    [][SweepStep => ret'.n = <<Cardinality(rows) - Cardinality(rows')>>]_vars

\* C15: a second CleanupExpiredEntries at the same instant, no other call of
\* the store in between, removes nothing and leaves the store as the first
\* left it.
C15_SweepIdempotent ==
    [][(SweepStep /\ ret.op = "sweep" /\ ~ret.err /\ ret.at = now) =>
          /\ rows' = rows
          /\ ret'.logged = <<>>
          /\ ret'.run = 2]_vars

C15_Witness ==
    /\ ret.op = "sweep" /\ ~ret.err /\ ret.run = 2 /\ ret.at = now
    /\ saved[UrlA] # <<>> /\ saved[UrlB] # <<>>
    /\ \A r \in rows : r.url = UrlB
    /\ rows # {}

\* This step belongs to a resolve or to the clock, not to the sweep.
ResolveStep == <<coordVars, now>>' # <<coordVars, now>>

\* C16: no step of a resolve (its get, its put) removes a row, so the URLs
\* in the store only grow between sweeps; and a row appears for a URL only
\* by the put of a resolve that has just fetched that URL.
C16_OnlySweepDeletes ==
    [][ResolveStep =>
          /\ {r.url : r \in rows} \subseteq {r.url : r \in rows'}
          /\ \A r \in rows' \ rows :
                \E i \in Tasks :
                   /\ task[i].pc = "save" /\ task'[i].put = "ok"
                   /\ task[i].gets = 1
                   /\ urls[i] = r.url
                   /\ r = RowOf(task[i].og[1])]_vars

C16_Witness ==
    /\ phase = "returned" /\ batches = 2
    /\ \E r \in rows : r.url = UrlA
    /\ \E r \in rows : r.url = UrlB
    /\ \E i \in Tasks : task[i].put = "ok"
    /\ ret.op = "sweep"

\* C17: when the cache write fails after a successful fetch, the resolve
\* still returns the record it fetched (it reaches the caller's map) and
\* the store is as it was: only the persistence is lost.
C17_WriteFailureStillReturns ==
    /\ [](\A i \in Tasks :
             task[i].put = "failed" =>
                /\ task[i].gets = 1
                /\ task[i].og # <<>>
                /\ task[i].og[1].URL = urls[i]
                /\ task[i].pc \in {"send", "done"}
                /\ phase = "returned" =>
                      urls[i] \in DOMAIN data /\ data[urls[i]] = task[i].og)
    /\ [][\A i \in Tasks :
            (task[i].pc = "save" /\ task'[i].put = "failed") =>
               /\ task'[i].og = task[i].og
               /\ rows' = rows]_vars

C17_Witness ==
    /\ phase = "returned"
    /\ \E i \in Tasks :
         /\ task[i].put = "failed"
         /\ urls[i] \in DOMAIN data
         /\ data[urls[i]][1].Title = <<"t", "2">>
         /\ \A r \in rows : r.url # urls[i]

\* C18: a cache lookup that fails with a storage error is treated as a miss:
\* the resolve goes on to fetch the URL (also when the store holds a valid
\* row for it) and returns what it fetched, a record stamped at the fetch.
C18_LookupErrorIsMiss ==
    /\ [][\A i \in Tasks :
            (LooksUp(i) /\ task'[i].lookup = "error" /\ isValidURL(urls[i])) =>
               /\ task'[i].pc = "fetch"
               /\ task'[i].gets = 1]_vars
    /\ [][\A i \in Tasks :
            (task[i].pc = "fetch" /\ task[i].lookup = "error") =>
               \/ task'[i] = task[i]
               \/ \E resp \in Responses(env) :
                     /\ task'[i].og = FetchOpenGraphData(urls[i], resp).og
                     /\ task'[i].pc = IF task'[i].og = <<>> THEN "send" ELSE "save"]_vars
    /\ [](\A i \in Tasks :
             (task[i].lookup = "error" /\ task[i].pc = "done"
                  /\ task[i].og # <<>>) =>
                /\ task[i].gets = 1
                /\ phase = "returned" =>
                      urls[i] \in DOMAIN data /\ data[urls[i]] = task[i].og)

C18_Witness ==
    /\ phase = "returned"
    /\ now > 0
    /\ \E i \in Tasks :
         /\ task[i].lookup = "error" /\ task[i].gets = 1
         /\ urls[i] \in DOMAIN data
         /\ data[urls[i]][1].FetchedAt.t = now
         /\ saved[urls[i]] # <<>>
         /\ \E r \in rows : r.url = urls[i]

\* C20: the fetcher does not retry: a resolve issues at most one GET, the
\* arrival of the response ends the fetch without another GET, and a
\* response whose status is not 2xx makes the resolve return nil.
C20_NoRetry ==
    /\ [](\A i \in Tasks :
             /\ task[i].gets <= 1
             /\ (task[i].status # 0 /\ task[i].status \notin 200..299) =>
                   /\ task[i].og = <<>>
                   /\ task[i].pc \in {"send", "done"}
                   /\ task[i].put = "none")
    /\ [][\A i \in Tasks :
            (task[i].pc = "fetch" /\ task'[i] # task[i]) =>
               /\ task'[i].gets = task[i].gets
               /\ task'[i].pc \in {"save", "send"}]_vars

C20_Witness ==
    /\ phase = "returned"
    /\ \E i \in Tasks :
         /\ task[i].status = 404 /\ task[i].gets = 1
         /\ task[i].pc = "done" /\ task[i].og = <<>>
         /\ urls[i] \notin DOMAIN data

\* C19: FetchConcurrentOpenGraph eventually returns for every batch; a task
\* about to send is never blocked by a full results channel; the channel is
\* closed only after the last task finished; and at the return every task
\* has finished and every slot has been given back.
C19_EventuallyReturns ==
    /\ (phase = "collect") ~> (phase = "returned")
    /\ [](\A i \in Tasks : task[i].pc = "send" => Len(results) < Len(urls))
    /\ [](closed => wg = 0 /\ \A i \in Tasks : task[i].pc \in {"done", "none"})
    /\ [](phase = "returned" /\ Len(urls) > 0 =>
            /\ closed /\ results = <<>> /\ semaphore = 0
            /\ \A i \in Tasks : task[i].pc \in {"done", "none"})

C19_Witness ==
    /\ phase = "returned" /\ closed
    /\ Len(urls) = PoolSize /\ PoolSize > maxConcurrent
    /\ \A i \in Tasks : task[i].pc = "done"
    /\ semaphore = 0
    /\ DOMAIN data = {UrlA, UrlB}
    /\ task[PoolSize].gets = 1

\* sub occurs in s: s is some text, then sub letter for letter, then the rest.
Occurs(sub, s) ==
    \E k \in 0..(Len(s) - Len(sub)) : \A j \in 1..Len(sub) : s[k + j] = sub[j]

\* C24: isRedditURL(u) is true for every u that contains "reddit.com" or
\* "redd.it" and false for every u that contains neither, and every URL it
\* is true for is classified ineligible.
C24_RedditIffContains ==
    fn.op = "isRedditURL" =>
       /\ fn.out = (Occurs(reddit_com, fn.arg) \/ Occurs(redd_it, fn.arg))
       /\ fn.out => Ineligible(fn.arg)

C24_Witness ==
    /\ fn.op = "isRedditURL" /\ fn.out
    /\ urlHost(fn.arg) = <<"a", ".", "i", "o">>
    /\ ~Occurs(reddit_com, fn.arg)

\* C25: isBlockedURL(u) is true exactly when u contains an entry of the
\* blocklist as a substring, letter case respected, anywhere in the URL
\* (host, path, query, or inside a longer host name); a plain reddit.com
\* URL and a URL with no entry in it are not blocked.
C25_BlockedIffContainsEntry ==
    fn.op = "isBlockedURL" =>
       /\ fn.out = (\E k \in DOMAIN blockedDomains : Occurs(blockedDomains[k], fn.arg))
       /\ fn.arg = <<"h", ":", "/", "/">> \o reddit_com => ~fn.out

C25_Witness ==
    /\ fn.op = "isBlockedURL" /\ fn.out
    /\ urlHost(fn.arg) = <<"b", "o", "x", ".", "c", "o", "m">>

\* The nodes of a document that are a meta element with the given attribute
\* and a content that is not empty.
MetaAt(doc, key, val) ==
    {k \in 1..Len(doc) :
        /\ doc[k].tag = "meta"
        /\ \E a \in 1..Len(doc[k].attr) :
              doc[k].attr[a].Key = key /\ doc[k].attr[a].Val = val
        /\ \E a \in 1..Len(doc[k].attr) :
              doc[k].attr[a].Key = "content" /\ doc[k].attr[a].Val # <<>>}

ContentAt(doc, k) ==
    LET a == CHOOSE a \in 1..Len(doc[k].attr) : doc[k].attr[a].Key = "content"
    IN  doc[k].attr[a].Val

First(ks) == CHOOSE k \in ks : \A j \in ks : k <= j

Last(ks) == CHOOSE k \in ks : \A j \in ks : k >= j

\* C26: whatever the order of the elements, the title is the content of an
\* og:title when one with content exists; else that of a twitter:title when
\* one with content exists, also when a <title> element precedes it; else
\* the text of the first <title> element.
C26_TitlePrecedence ==
    fn.op = "parseOpenGraphTags" =>
       LET doc == fn.arg
           ogt == MetaAt(doc, "property", "og:title")
           twt == MetaAt(doc, "name", "twitter:title")
           tit == {k \in 1..Len(doc) : doc[k].tag = "title" /\ doc[k].text # <<>>}
       IN  IF ogt # {} THEN \E k \in ogt : fn.out.Title = ContentAt(doc, k)
           ELSE IF twt # {} THEN \E k \in twt : fn.out.Title = ContentAt(doc, k)
           ELSE IF tit # {} THEN fn.out.Title = TrimSpace(doc[First(tit)].text[1])
           ELSE fn.out.Title = <<>>

\* C27: during the walk, once title, description, image or siteName holds a
\* value that is not empty, no later element changes or clears it.
C27_FirstMatchWins ==
    [][(fn.op = "extractMeta" /\ fn'.op = "extractMeta") =>
          /\ fn.out.og.Title # <<>> => fn'.out.og.Title = fn.out.og.Title
          /\ fn.out.og.Description # <<>> =>
                fn'.out.og.Description = fn.out.og.Description
          /\ fn.out.og.Image # <<>> => fn'.out.og.Image = fn.out.og.Image
          /\ fn.out.og.SiteName # <<>> =>
                fn'.out.og.SiteName = fn.out.og.SiteName]_vars

\* The trimmed text of a <p> element.
ParagraphText(n) == TrimSpace(extractText(n.text))

PropertyAt(doc, val) ==
    {k \in 1..Len(doc) :
        /\ doc[k].tag = "meta"
        /\ \E a \in 1..Len(doc[k].attr) :
              doc[k].attr[a].Key = "property" /\ doc[k].attr[a].Val = val}

UnsupportedType ==
    /\ fn.op = "FetchOpenGraphData"
    /\ ~fn.arg[2].err
    /\ ~Occurs(text_html, fn.arg[2].ctype)
    /\ ~Occurs(application_xhtml, fn.arg[2].ctype)

ReadableResponse ==
    /\ fn.op = "FetchOpenGraphData"
    /\ ~fn.arg[2].err /\ fn.arg[2].status = 200 /\ ~fn.arg[2].readErr
    /\ Occurs(text_html, fn.arg[2].ctype) \/ Occurs(application_xhtml, fn.arg[2].ctype)

\* C22: the text handed to parseOpenGraphTags never exceeds 1048576 bytes
\* whatever the size of the body, and a body larger than that is cut to
\* its first 1048576 bytes and parsed: the fetch succeeds with the record
\* of the elements that lie within them.
C22_BodyCappedAtOneMiB ==
    /\ fn.op = "FetchOpenGraphData" =>
          /\ fn.out.read <= 1048576
          /\ fn.out.text # <<>> => fn.out.text[1].bytes <= 1048576
    /\ (ReadableResponse /\ BodySize(fn.arg[2].body) > 1048576) =>
          /\ fn.out.err = ""
          /\ fn.out.og # <<>>
          /\ fn.out.read = 1048576
          /\ fn.out.text # <<>> /\ fn.out.text[1].bytes = 1048576
          /\ fn.out.og[1].Title # <<"l">>
          /\ \A i \in Tasks : task[i].og = fn.out.og

C22_Witness ==
    /\ ReadableResponse
    /\ BodySize(fn.arg[2].body) > 3 * 1048576
    /\ fn.out.og[1].Title = <<"b">> /\ fn.out.og[1].SiteName = <<"s">>
    /\ phase = "returned"
    /\ fn.arg[1] \in DOMAIN data
    /\ \E r \in rows : r.url = fn.arg[1] /\ r.title = <<"b">>

\* C28: when the page of a URL fetched with success carries no og:site_name,
\* the siteName of the record the fetcher returns, and of the row written
\* to the cache, is the host of the URL.
C28_SiteNameIsHost ==
    ( /\ fn.op = "FetchOpenGraphData"
      /\ fn.out.og # <<>>
      /\ PropertyAt(fn.out.text[1].doc, "og:site_name") = {} ) =>
       /\ fn.out.og[1].SiteName = urlHost(fn.arg[1])
       /\ \A r \in rows : r.url = fn.arg[1] => r.site_name = urlHost(fn.arg[1])

\* One row with the column added: the same in every column it had.
SameButVersion(r, r2) ==
    /\ r2.url = r.url /\ r2.title = r.title /\ r2.description = r.description
    /\ r2.image = r.image /\ r2.site_name = r.site_name
    /\ r2.fetched_at = r.fetched_at /\ r2.expires_at = r.expires_at
    /\ r2.version = 1

\* C23: InitOpenGraphDB on a store whose opengraph_cache lacks the version
\* column adds that column, default 1, and leaves every column and every
\* row as it was; it changes nothing when the column is there; a step that
\* fails changes nothing; and the handle is returned, and a get, put or
\* sweep served, only with the column in place.
C23_MigrationAddsVersion ==
    /\ [][(db = "schema" /\ db' = "ready") =>
            IF \E k \in 1..Len(schema) : schema[k] = "version"
            THEN schema' = schema /\ rows' = rows
            ELSE /\ schema' = schema \o <<"version">>
                 /\ Cardinality(rows') = Cardinality(rows)
                 /\ \A r \in rows : \E r2 \in rows' : SameButVersion(r, r2)]_vars
    /\ [][(db = "opened" /\ schema # <<>>) => (schema' = schema /\ rows' = rows)]_vars
    /\ [][db' = "failed" => (schema' = schema /\ rows' = rows)]_vars
    /\ [](db = "ready" => \E k \in 1..Len(schema) : schema[k] = "version")
    /\ [](ret.op # "none" => db = "ready")

C23_Witness ==
    /\ db = "ready"
    /\ schema = LegacyColumns \o <<"version">>
    /\ ret.op = "get" /\ ret.url = UrlA /\ ret.og = <<RecentRecord>>
    /\ \E r \in rows : r.url = UrlB /\ r.version = 1
             /\ SameButVersion(LegacyRowOf(OldRecord), r)

\* A document without a meta element.
NoMeta(doc) == \A k \in 1..Len(doc) : doc[k].tag # "meta"

\* The <title> elements of a document that have a text.
Titles(doc) == {k \in 1..Len(doc) : doc[k].tag = "title" /\ doc[k].text # <<>>}

\* The paragraphs of a document whose trimmed text is longer than 20.
LongParagraphs(doc) ==
    {k \in 1..Len(doc) : doc[k].tag = "p" /\ Len(ParagraphText(doc[k])) > 20}

Dots == <<".", ".", ".">>

\* The first n characters of a string (the whole of it if it has no more).
CharPrefix(s, n) ==
    IF RuneCount(s) <= n THEN s
    ELSE LET next == CHOOSE i \in 1..Len(s) :
                        s[i] # ContByte /\ RuneCount(SubSeq(s, 1, i)) = n + 1
         IN  SubSeq(s, 1, next - 1)

\* What the claim lets a value of at most max characters become, trimmed as
\* the cleanup trims it.
Truncated(s, max) ==
    TrimSpace(IF RuneCount(s) > max THEN CharPrefix(s, max - 3) \o Dots ELSE s)

\* C32: cleanupOpenGraphData cuts a title of more than 200 characters to its
\* first 197 characters and "...", a description of more than 500 to its
\* first 497 and "...", and cuts no shorter value; the title it returns has
\* at most 200 characters and the description at most 500.
C32_TruncatedAtLimit ==
    (fn.op = "cleanupOpenGraphData" /\ Len(fn.arg) = 1) =>
       /\ fn.out.Title = Truncated(fn.arg[1].Title, 200)
       /\ fn.out.Description = Truncated(fn.arg[1].Description, 500)
       /\ RuneCount(fn.out.Title) <= 200
       /\ RuneCount(fn.out.Description) <= 500

\* A value without white space at its ends and without a control byte.
Tidy(s) ==
    /\ s # <<>> => s[1] # Space /\ s[Len(s)] # Space
    /\ \A i \in 1..Len(s) : s[i] \notin CtlBytes

\* C33: after the cleanup no field among title, description, image and site
\* name begins or ends with white space, and none holds a null or control
\* byte.
C33_FieldsTidy ==
    (fn.op \in {"cleanupOpenGraphData", "cleanupOpenGraphData2"}) =>
       /\ Tidy(fn.out.Title)
       /\ Tidy(fn.out.Description)
       /\ Tidy(fn.out.Image)
       /\ Tidy(fn.out.SiteName)

\* C40: cleanupOpenGraphData, called on the record it returned, returns it
\* unchanged, whatever the record it was first called on.
C40_CleanupIdempotent ==
    (fn.op \in {"cleanupOpenGraphData", "cleanupOpenGraphData2"} /\ Len(fn.arg) = 2) =>
       fn.out = fn.arg[2]

\* An absolute URL: url.Parse gives it a scheme and a host.
AbsoluteURL(s) == urlScheme(s) # <<>> /\ urlHost(s) # <<>>

\* C34: the image of every record FetchOpenGraphData returns, and of every
\* row of the cache, is empty or an absolute URL (a scheme and a host): the
\* image found in the page when that is one, empty when it is not.
C34_ImageEmptyOrAbsolute ==
    /\ (fn.op = "FetchOpenGraphData" /\ fn.out.og # <<>>) =>
          LET found == parseOpenGraphTags(fn.out.text[1].doc).Image
              image == fn.out.og[1].Image
          IN  /\ image = <<>> \/ AbsoluteURL(image)
              /\ image = IF AbsoluteURL(found) THEN found ELSE <<>>
    /\ \A r \in rows : r.image = <<>> \/ AbsoluteURL(r.image)

\* A page whose og:image is "/a.png": the record is returned and cached
\* without an image.
C34_Witness ==
    /\ fn.op = "FetchOpenGraphData" /\ fn.out.og # <<>>
    /\ parseOpenGraphTags(fn.out.text[1].doc).Image = <<"/", "a", ".", "p", "n", "g">>
    /\ fn.out.og[1].Image = <<>>
    /\ \E r \in rows : r.url = fn.out.og[1].URL /\ r.image = <<>>

\* C39: every key of the map FetchConcurrentOpenGraph assembles and returns
\* is a URL of the argument that is not empty, and the record under a key
\* has that key as its URL, be it a record read from the cache or one just
\* fetched.
C39_KeysAreRecordURLs ==
    \A u \in DOMAIN data :
       /\ u # <<>>
       /\ \E i \in 1..Len(urls) : urls[i] = u
       /\ data[u] # <<>>
       /\ data[u][1].URL = u

\* Three times the same URL: one goroutine fetched it, another read it from
\* the cache, and the map returned holds it under its URL.
C39_Witness ==
    /\ phase = "returned"
    /\ Len(urls) = 3
    /\ \E i, j \in Tasks :
         /\ task[i].lookup = "miss" /\ task[i].put = "ok"
         /\ task[j].lookup = "hit"
    /\ DOMAIN data = {UrlA}
    /\ data[UrlA][1].URL = UrlA

\* The places of the posts that pass the two thresholds.
Passing(posts, minScore, minComments) ==
    {k \in 1..Len(posts) :
        posts[k].Score >= minScore /\ posts[k].NumComments >= minComments}

\* The j-th smallest element of a set of numbers.
Nth(ks, j) == CHOOSE k \in ks : Cardinality({m \in ks : m <= k}) = j

\* C35: FilterPosts returns the posts with score >= minScore and comments >=
\* minComments, each once per occurrence, in the order of the argument, and
\* no other post.
C35_FilterExact ==
    fn.op = "FilterPosts" =>
       LET posts == fn.arg[1]
           pass == Passing(posts, fn.arg[2], fn.arg[3])
       IN  /\ Len(fn.out) = Cardinality(pass)
           /\ \A j \in 1..Len(fn.out) : fn.out[j] = posts[Nth(pass, j)]

\* The list of the test with a third post on the thresholds: the first and
\* the third are returned, in that order.
C35_Witness ==
    /\ fn.op = "FilterPosts"
    /\ fn.arg = << << Post(<<100, 50>>, 100, 50), Post(<<5, 2>>, 5, 2),
                      Post(<<50, 10>>, 50, 10) >>, 50, 10 >>
    /\ fn.out = << Post(<<100, 50>>, 100, 50), Post(<<50, 10>>, 50, 10) >>

\* C38: FetchRedditHomepage calls the API at most 3 times and not again
\* after a call that succeeded; it returns the posts of the call that
\* succeeded, and it returns an error exactly when it made 3 calls and all
\* 3 failed.
C38_AtMostThreeAttempts ==
    fn.op = "FetchRedditHomepage" =>
       LET tries == fn.out.tries
           failed == {k \in 1..Len(tries) : tries[k].err # ""}
       IN  /\ Len(tries) <= 3
           /\ \A k \in 1..(Len(tries) - 1) : k \in failed
           /\ fn.out.pc = "returned" =>
                 /\ Len(tries) >= 1
                 /\ fn.out.result.err # "" <=> (Len(tries) = 3 /\ failed = 1..3)
                 /\ fn.out.result.err = "" =>
                       fn.out.result.posts = tries[Len(tries)].posts

\* Two failures, then a listing of two posts: that listing is returned.
C38_Witness ==
    /\ fn.op = "FetchRedditHomepage" /\ fn.out.pc = "returned"
    /\ Len(fn.out.tries) = 3
    /\ fn.out.tries[1].err # "" /\ fn.out.tries[2].err # ""
    /\ fn.out.result = [posts |-> << Post(<<"p", "2">>, 5, 2), Post(<<"p", "1">>, 100, 50) >>,
                        err |-> ""]

\* C36: once the code is received, the tokens are exchanged and the config
\* is saved, AuthenticateUser returns in the end: the shutdown signal of the
\* server has been given when the wait on ServerWg begins, so the wait
\* completes.
C36_WaitCompletes ==
    /\ [](fn.op = "AuthenticateUser" =>
             (fn.out.pc = "wait" => fn.out.ctx = "cancelled"))
    /\ (fn.op = "AuthenticateUser" /\ fn.out.pc = "wait")
          ~> (fn.op = "AuthenticateUser" /\ fn.out.pc = "returned")

\* C37: exchangeAuthCodeForTokens calls the token endpoint at most 5 times
\* and calls it again only after an answer 429; any other failure, and the
\* fifth answer 429, make it return an error at once; the global Token is
\* assigned only by a call that succeeded.
C37_AtMostFiveExchanges ==
    fn.op = "AuthenticateUser" =>
       LET o == fn.out.outcomes
           n == Len(o)
       IN  /\ n <= 5
           /\ \A k \in 1..(n - 1) : o[k] = "429"
           /\ fn.out.Token # <<>> <=> (n > 0 /\ o[n] = "ok")
           /\ (n > 0 /\ (o[n] = "error" \/ (o[n] = "429" /\ n = 5))) =>
                 /\ fn.out.pc = "returned"
                 /\ fn.out.result = "failed to exchange authorization code"
           /\ (n > 0 /\ o[n] = "429" /\ n < 5) => fn.out.pc = "exchange"
           /\ fn.out.backoff = 2 ^ fn.out.i

\* Five answers 429: the error is returned and Token is still nil.
C37_Witness ==
    /\ fn.op = "AuthenticateUser"
    /\ fn.out.outcomes = <<"429", "429", "429", "429", "429">>
    /\ fn.out.pc = "returned"
    /\ fn.out.result = "failed to exchange authorization code"
    /\ fn.out.Token = <<>>

====
